---- MODULE Spec2Model ----
(***************************************************************************)
(* Research job orchestrator of the Mass Legal Research Assistant backend. *)
(*                                                                         *)
(* backend/server.py holds one in-memory store (research_store) that is    *)
(* written by two bindings: the REST endpoints (start_research and the     *)
(* background task conduct_research_task) and the MCP tool                 *)
(* conduct_research.  backend/app.py is the REST binding alone, with the   *)
(* same code (store research_results, task conduct_research).              *)
(*                                                                         *)
(* Every handler and the background task are `async def` functions run on  *)
(* the one asyncio event loop.  The provider and synthesis calls inside    *)
(* them are plain synchronous calls (no await that suspends), so once a    *)
(* job's execution has started it occupies the event loop until it         *)
(* returns: no other handler runs in between (EventLoopFree).  The only    *)
(* window in which requests can interleave with a REST job is between the  *)
(* response of start_research and the start of its background task.        *)
(***************************************************************************)
EXTENDS Integers, Sequences, FiniteSets, TLC

VARIABLES
    store,          \* research_store: research_id -> job record
    nextId,         \* number of identifiers generated so far (uuid4 is fresh)
    pc,             \* per job: position of its execution
    args,           \* per job: the arguments its execution was started with
    agent_results,  \* per job: the local dict agent_results of its execution
    log,            \* per job: history of provider / synthesis call events
    returned,       \* per job: what the submitting call has returned so far
    probe           \* what an observer has seen last: one call of a function
                    \* checked on its own, or the last response of a handler
                    \* (None: nothing is observed)

jobvars == <<store, nextId, pc, args, agent_results, log, returned>>
vars == <<store, nextId, pc, args, agent_results, log, returned, probe>>

----------------------------------------------------------------------------
(* Bounds and input sets *)

MaxJobs == 2
Ids == 1..MaxJobs

\* Calls of LegalResearchOrchestrator.run and clock ticks observed in a row.
MaxRuns == 2
MaxTicks == 3

\* Length of a sources list handed to format_sources on its own.
MaxSources == 3

\* Python None
None == [none |-> TRUE]

\* A Python int, as a value that can be compared with None
Some(n) == [int |-> n]

\* len(query) < 10 makes a query invalid
MinQueryLen == 10

\* A query is represented by what validate_research_query reads of it: its
\* length, whether it contains one of the legal terms, whether it contains
\* "mass".
ShortQuery == [len |-> 9,  legal |-> TRUE,  mass |-> TRUE]
PlainQuery == [len |-> 10, legal |-> FALSE, mass |-> FALSE]
LegalQuery == [len |-> 40, legal |-> TRUE,  mass |-> TRUE]

Req(query, format, length, agents, year_start, year_end) ==
    [ query |-> query, format |-> format, length |-> length, agents |-> agents,
      year_start |-> year_start, year_end |-> year_end ]

\* The requests a caller can send (ResearchQuery; the MCP tool's arguments):
\* every shape of the provider list (both providers, each alone, none, an
\* unknown name), with and without a year range, one query too short.
Requests ==
    { Req(LegalQuery, "markdown", "comprehensive", {"legal_rag", "websearch"}, None, None),
      Req(LegalQuery, "markdown", "brief", {"legal_rag", "citator"}, Some(1990), Some(2010)),
      Req(PlainQuery, "html", "standard", {"websearch"}, None, None),
      Req(PlainQuery, "json", "comprehensive", {}, Some(1990), None),
      Req(ShortQuery, "markdown", "comprehensive", {"websearch"}, None, None) }

\* What the external collaborators do during one provider call.
RagOutcomes == {"hits", "none", "error"}
WebOutcomes == {"hits", "error"}
\* What the generation call of the synthesis step does.
GenOutcomes == {"ok", "raise"}

----------------------------------------------------------------------------
(* Python dict helpers *)

\* dict.get(key, default)
Get(d, k, default) == IF k \in DOMAIN d THEN d[k] ELSE default

\* dict.update(fields)
Update(d, fields) ==
    [k \in DOMAIN d \cup DOMAIN fields |->
        IF k \in DOMAIN fields THEN fields[k] ELSE d[k]]

\* d[key] = value on the store, del d[key]
Put(d, k, v) == [x \in DOMAIN d \cup {k} |-> IF x = k THEN v ELSE d[x]]
\* del d[key] taking every older entry with it.
DelThrough(d, k) == [x \in {y \in DOMAIN d : y > k} |-> d[x]]

Del(d, k) == [x \in DOMAIN d \ {k} |-> d[x]]

----------------------------------------------------------------------------
(* Results of calls: a value returned, or an exception raised *)

Ret(v) == [raised |-> FALSE, value |-> v]
Raise(e) == [raised |-> TRUE, error |-> e]

\* A piece of text: a fixed wording, plus what it was built from.
Text(t) == [text |-> t]
EmptyText == Text("")

\* An empty dict
EmptyDict == [k \in {} |-> None]

\* The response of a handler: the HTTP status code ("ValueError" for an MCP
\* tool that raises it) and the body returned, for the call op(research_id)
\* (research_id 0: the call names no job).
Reply(op, research_id, code, body) ==
    [op |-> op, research_id |-> research_id, code |-> code, body |-> body]

\* The observer's view after a handler has answered `reply`.  Besides the
\* response itself it keeps the body of the response before it, when both
\* answer a GET of the same identifier.
Observe(reply) ==
    IF probe = None THEN None
    ELSE [ op |-> reply.op, research_id |-> reply.research_id,
           code |-> reply.code, body |-> reply.body,
           prev |-> IF /\ reply.op = "get_research_results"
                       /\ probe.op = reply.op
                       /\ probe.research_id = reply.research_id
                    THEN probe.body ELSE None ]

----------------------------------------------------------------------------
(* utils/helper.py *)

\* validate_research_query accepting a query of any length.
validate_research_query_any_length(query) ==
    [ valid |-> TRUE,
      enhancements |->
          (IF ~query.legal THEN <<"add legal terminology">> ELSE <<>>)
          \o (IF ~query.mass THEN <<"mention Massachusetts">> ELSE <<>>),
      warnings |->
          IF query.len < MinQueryLen THEN <<"Query is too short">> ELSE <<>> ]

\* validate_research_query rejecting a query without legal vocabulary too.
validate_research_query_strict(query) ==
    [ valid |-> ~(query.len < MinQueryLen) /\ query.legal,
      enhancements |->
          (IF ~query.legal THEN <<"add legal terminology">> ELSE <<>>)
          \o (IF ~query.mass THEN <<"mention Massachusetts">> ELSE <<>>),
      warnings |->
          IF query.len < MinQueryLen THEN <<"Query is too short">> ELSE <<>> ]

validate_research_query(query) ==
    [ valid |-> ~(query.len < MinQueryLen),
      enhancements |->
          (IF ~query.legal THEN <<"add legal terminology">> ELSE <<>>)
          \o (IF ~query.mass THEN <<"mention Massachusetts">> ELSE <<>>),
      warnings |->
          IF query.len < MinQueryLen THEN <<"Query is too short">> ELSE <<>> ]

\* The record of format_sources with the url test before the case_name test.
FormatSourceUrlFirst(source) ==
    IF "url" \in DOMAIN source THEN
        << [ type |-> "web",
             title |-> Get(source, "title", "Untitled"),
             url |-> Get(source, "url", ""),
             published_date |-> Get(source, "published_date", ""),
             source |-> "Web Search" ] >>
    ELSE IF "case_name" \in DOMAIN source THEN
        << [ type |-> "case_law",
             case_name |-> Get(source, "case_name", "Unknown case"),
             citation |-> Get(source, "citation", ""),
             year |-> Get(source, "year", ""),
             url |-> "",
             source |-> Get(source, "source", "Massachusetts Reports") ] >>
    ELSE << >>

\* The record format_sources appends for one source (none for a source that
\* has neither a case_name nor a url key).
FormatSource(source) ==
    IF "case_name" \in DOMAIN source THEN
        << [ type |-> "case_law",
             case_name |-> Get(source, "case_name", "Unknown case"),
             citation |-> Get(source, "citation", ""),
             year |-> Get(source, "year", ""),
             url |-> "",
             source |-> Get(source, "source", "Massachusetts Reports") ] >>
    ELSE IF "url" \in DOMAIN source THEN
        << [ type |-> "web",
             title |-> Get(source, "title", "Untitled"),
             url |-> Get(source, "url", ""),
             published_date |-> Get(source, "published_date", ""),
             source |-> "Web Search" ] >>
    ELSE << >>

RECURSIVE format_sources(_)
format_sources(sources) ==
    IF sources = << >> THEN << >>
    ELSE FormatSource(Head(sources)) \o format_sources(Tail(sources))

----------------------------------------------------------------------------
(* agents/legal_rag_agent.py, agents/websearch_agent.py *)

\* The citations the vector search returns on a hit.
RagSources ==
    << [ case_name |-> "Foot v. Bauman", citation |-> "333 Mass. 214",
         year |-> "1955", source |-> "Massachusetts Reports" ] >>

\* The documents the web search returns on a hit.
WebSources ==
    << [ title |-> "Adverse possession", url |-> "https://www.mass.gov/ap",
         published_date |-> "2024-01-05" ] >>

\* str(n) of a non-negative int: its decimal digits.
RECURSIVE Str(_)
Str(n) == IF n < 10 THEN <<n>> ELSE Str(n \div 10) \o <<n % 10>>

\* The number a digit string writes.
RECURSIVE Val(_)
Val(digits) ==
    IF digits = << >> THEN 0
    ELSE 10 * Val(SubSeq(digits, 1, Len(digits) - 1)) + digits[Len(digits)]

\* a <= b for strings (Python's order: by the first differing character, a
\* proper prefix first).
RECURSIVE StrLeq(_, _)
StrLeq(a, b) ==
    IF a = << >> THEN TRUE
    ELSE IF b = << >> THEN FALSE
    ELSE IF Head(a) # Head(b) THEN Head(a) < Head(b)
    ELSE StrLeq(Tail(a), Tail(b))

\* The year filter with the upper bound left out.
YearFilterLowerOnly(year_start, year_end) ==
    IF year_start = None THEN None
    ELSE [year |-> [k \in {"$gte"} |-> Str(year_start.int)]]

\* The filter LegalRagAgent.query passes to the vector search: filter_dict,
\* or None when it is empty.
YearFilter(year_start, year_end) ==
    IF year_start = None /\ year_end = None THEN None
    ELSE [year |->
            [k \in (IF year_start # None THEN {"$gte"} ELSE {})
                   \cup (IF year_end # None THEN {"$lte"} ELSE {})
             |-> IF k = "$gte" THEN Str(year_start.int) ELSE Str(year_end.int)]]

\* Whether the vector search returns a match whose metadata year is `year`
\* under `filter`.  The bounds are strings; the search compares either the
\* numbers they write or the strings themselves.
SearchAdmits(filter, year, compare) ==
    LET Leq(a, b) == IF compare = "numeric" THEN Val(a) <= Val(b) ELSE StrLeq(a, b)
    IN  \/ filter = None
        \/ /\ "$gte" \in DOMAIN filter.year => Leq(filter.year["$gte"], Str(year))
           /\ "$lte" \in DOMAIN filter.year => Leq(Str(year), filter.year["$lte"])

\* LegalRagAgent.query raising when the vector search has no match.
LegalRagAgent_query_none_raises(query_text, year_start, year_end, outcome) ==
    CASE outcome = "hits" ->
            Ret([ context |-> [text |-> "contexts", of |-> RagSources],
                  response |-> [text |-> "case law analysis", query |-> query_text],
                  sources |-> RagSources ])
      [] outcome = "none" -> Raise("no matches")
      [] OTHER ->
            Ret([ context |-> EmptyText,
                  response |-> [text |-> "Error retrieving legal information",
                                detail |-> outcome],
                  sources |-> << >> ])

\* The collaborator calls one LegalRagAgent.query makes: the embedding, the
\* vector search, and the generation call when the search had matches (a
\* failure is taken at the first call).
LegalRagCalls(outcome) ==
    CASE outcome = "hits" -> <<"embed_query", "index.query", "chain.invoke">>
      [] outcome = "none" -> <<"embed_query", "index.query">>
      [] OTHER -> <<"embed_query">>

\* LegalRagAgent.query: everything runs inside try/except Exception, so an
\* error of the embedding, the vector search or the generation call comes
\* back as a result with an error text as response; zero matches come back
\* as a result with an explanatory response and no generation call.
LegalRagAgent_query(query_text, year_start, year_end, outcome) ==
    CASE outcome = "hits" ->
            Ret([ context |-> [text |-> "contexts", of |-> RagSources],
                  response |-> [text |-> "case law analysis", query |-> query_text],
                  sources |-> RagSources ])
      [] outcome = "none" ->
            Ret([ context |-> EmptyText,
                  response |-> Text("I couldn't find any relevant case law"),
                  sources |-> << >> ])
      [] OTHER ->
            Ret([ context |-> EmptyText,
                  response |-> [text |-> "Error retrieving legal information",
                                detail |-> outcome],
                  sources |-> << >> ])

\* WebSearchAgent.query: the same try/except Exception shape.
WebSearchAgent_query(query_text, outcome) ==
    CASE outcome = "hits" ->
            Ret([ results |-> WebSources,
                  response |-> [text |-> "web insights", query |-> query_text],
                  sources |-> WebSources ])
      [] OTHER ->
            Ret([ results |-> << >>,
                  response |-> [text |-> "Error retrieving web information",
                                detail |-> outcome],
                  sources |-> << >> ])

----------------------------------------------------------------------------
(* agents/synthesis_agent.py *)

\* The length directive falling back to the brief tier for an unknown value.
LengthParamsDefaultBrief(length) ==
    IF length = "comprehensive" THEN
        [max_pages |-> "20-30", detail_level |-> "in-depth analysis with thorough examination of legal principles"]
    ELSE IF length = "standard" THEN
        [max_pages |-> "10-15", detail_level |-> "balanced analysis with moderate detail"]
    ELSE
        [max_pages |-> "5-7", detail_level |-> "concise overview of key points"]

\* The length directive of the synthesis prompt.
LengthParams(length) ==
    IF length = "brief" THEN
        [max_pages |-> "5-7", detail_level |-> "concise overview of key points"]
    ELSE IF length = "standard" THEN
        [max_pages |-> "10-15", detail_level |-> "balanced analysis with moderate detail"]
    ELSE
        [max_pages |-> "20-30", detail_level |-> "in-depth analysis with thorough examination of legal principles"]

\* What one provider's entry contributes: its response text and its sources.
\* A provider result that is None has no .get (AttributeError).
ProviderPart(results, name) ==
    IF name \notin DOMAIN results THEN
        Ret([content |-> EmptyText, sources |-> << >>])
    ELSE IF results[name] = None THEN
        Raise("AttributeError")
    ELSE
        Ret([ content |-> Get(results[name], "response", EmptyText),
              sources |-> Get(results[name], "sources", << >>) ])

\* The generation calls one synthesize makes: one chain.invoke with the
\* prompt built from whatever parts there are; none when collecting the
\* parts has failed before.
SynthesisCalls(results) ==
    IF ProviderPart(results, "legal_rag").raised
       \/ ProviderPart(results, "websearch").raised
    THEN << >>
    ELSE << "chain.invoke" >>

\* The body of synthesize merging equal citations into one.
SynthesizeBodyDedup(query, results, format, length, gen) ==
    LET rag == ProviderPart(results, "legal_rag")
        web == ProviderPart(results, "websearch")
    IN  IF rag.raised THEN rag
        ELSE IF web.raised THEN web
        ELSE IF gen # "ok" THEN Raise("generation failed")
        ELSE Ret([ content |->
                       [ text |-> "report",
                         prompt |-> [ query |-> query,
                                      historical_content |-> rag.value.content,
                                      web_content |-> web.value.content,
                                      max_pages |-> LengthParams(length).max_pages,
                                      detail_level |-> LengthParams(length).detail_level,
                                      format |-> format ] ],
                   sources |->
                       LET all == rag.value.sources \o web.value.sources
                           keep == {i \in DOMAIN all :
                                       \A k \in 1..(i - 1) : all[k] # all[i]}
                       IN  [n \in 1..Cardinality(keep) |->
                               all[CHOOSE i \in keep :
                                       Cardinality({k \in keep : k <= i}) = n]] ])

\* The body of synthesize's try block: collect both providers' parts, build
\* the prompt, issue the one generation call.
SynthesizeBody(query, results, format, length, gen) ==
    LET rag == ProviderPart(results, "legal_rag")
        web == ProviderPart(results, "websearch")
    IN  IF rag.raised THEN rag
        ELSE IF web.raised THEN web
        ELSE IF gen # "ok" THEN Raise("generation failed")
        ELSE Ret([ content |->
                       [ text |-> "report",
                         prompt |-> [ query |-> query,
                                      historical_content |-> rag.value.content,
                                      web_content |-> web.value.content,
                                      max_pages |-> LengthParams(length).max_pages,
                                      detail_level |-> LengthParams(length).detail_level,
                                      format |-> format ] ],
                   sources |-> rag.value.sources \o web.value.sources ])

\* SynthesisAgent.synthesize without its except clause.
SynthesizeUnguarded(query, results, format, length, gen) ==
    SynthesizeBody(query, results, format, length, gen)

\* SynthesisAgent.synthesize: the except clause turns any exception of the
\* body into a returned result.
synthesize(query, results, format, length, gen) ==
    LET body == SynthesizeBody(query, results, format, length, gen)
    IN  IF body.raised THEN
            Ret([ content |-> [text |-> "Error synthesizing research report",
                               detail |-> body.error],
                  sources |-> << >> ])
        ELSE body

----------------------------------------------------------------------------
(* langraph/orchestrator.py *)

\* time.time() counts in ticks of half a second; int() cuts it to seconds.
TicksPerSecond == 2
IntSeconds(clock) == clock \div TicksPerSecond

\* The agents an orchestrator was constructed with.
ActiveAgents(use_legal_rag, use_websearch) ==
    (IF use_legal_rag THEN {"legal_rag"} ELSE {})
    \cup (IF use_websearch THEN {"websearch"} ELSE {})

\* run, legal_rag block: the entry of results["case_law"].
RunCaseLaw(query, year_start, year_end, rag) ==
    LET r == LegalRagAgent_query(query, year_start, year_end, rag)
    IN  IF r.raised THEN
            [ content |-> [text |-> "Error retrieving case law", detail |-> r.error],
              sources |-> << >> ]
        ELSE
            [ content |-> Get(r.value, "response", Text("No relevant case law available")),
              sources |-> Get(r.value, "sources", << >>) ]

\* run, websearch block: the entry of results["legal_commentary"].
RunCommentary(query, web) ==
    LET r == WebSearchAgent_query(query, web)
    IN  IF r.raised THEN
            [ content |-> [text |-> "Error retrieving legal commentary", detail |-> r.error],
              sources |-> << >> ]
        ELSE
            [ content |-> Get(r.value, "response", Text("No recent legal commentary available")),
              sources |-> Get(r.value, "sources", << >>) ]

\* run issuing the synthesis generation call whenever an agent is active.
LegalResearchOrchestrator_run_always_synthesizing(active_agents, query, year_start, year_end, format, length, clock, rag, web, gen) ==
    LET results ==
            [ k \in (IF "legal_rag" \in active_agents THEN {"case_law"} ELSE {})
                    \cup (IF "websearch" \in active_agents THEN {"legal_commentary"} ELSE {})
              |-> IF k = "case_law" THEN RunCaseLaw(query, year_start, year_end, rag)
                  ELSE RunCommentary(query, web) ]
        all_sources ==
            (IF "case_law" \in DOMAIN results THEN results["case_law"].sources ELSE << >>)
            \o (IF "legal_commentary" \in DOMAIN results
                    THEN results["legal_commentary"].sources ELSE << >>)
        case_law ==
            IF "case_law" \in DOMAIN results THEN results["case_law"].content
            ELSE Text("Not available")
        legal_commentary ==
            IF "legal_commentary" \in DOMAIN results THEN results["legal_commentary"].content
            ELSE Text("Not available")
        final_response ==
            IF Cardinality(active_agents) > 0 THEN
                IF gen = "ok" THEN
                    [ text |-> "report",
                      prompt |-> [ query |-> query,
                                   case_law |-> case_law,
                                   legal_commentary |-> legal_commentary,
                                   max_pages |-> LengthParams(length).max_pages,
                                   detail_level |-> LengthParams(length).detail_level,
                                   format |-> format ] ]
                ELSE [text |-> "Error generating legal research synthesis",
                      detail |-> "generation failed"]
            ELSE IF "legal_rag" \in active_agents THEN results["case_law"].content
            ELSE IF "websearch" \in active_agents THEN results["legal_commentary"].content
            ELSE EmptyText
    IN  [ id |-> IntSeconds(clock),
          query |-> query,
          content |-> final_response,
          sources |-> all_sources,
          components |-> results,
          metadata |-> [ year_range |-> [start |-> year_start, end |-> year_end],
                         format |-> format,
                         length |-> length,
                         agents_used |-> active_agents ] ]

\* LegalResearchOrchestrator.run at clock reading `clock`, the collaborators
\* answering rag, web and gen.
LegalResearchOrchestrator_run(active_agents, query, year_start, year_end, format, length, clock, rag, web, gen) ==
    LET results ==
            [ k \in (IF "legal_rag" \in active_agents THEN {"case_law"} ELSE {})
                    \cup (IF "websearch" \in active_agents THEN {"legal_commentary"} ELSE {})
              |-> IF k = "case_law" THEN RunCaseLaw(query, year_start, year_end, rag)
                  ELSE RunCommentary(query, web) ]
        all_sources ==
            (IF "case_law" \in DOMAIN results THEN results["case_law"].sources ELSE << >>)
            \o (IF "legal_commentary" \in DOMAIN results
                    THEN results["legal_commentary"].sources ELSE << >>)
        case_law ==
            IF "case_law" \in DOMAIN results THEN results["case_law"].content
            ELSE Text("Not available")
        legal_commentary ==
            IF "legal_commentary" \in DOMAIN results THEN results["legal_commentary"].content
            ELSE Text("Not available")
        final_response ==
            IF Cardinality(active_agents) > 1 THEN
                IF gen = "ok" THEN
                    [ text |-> "report",
                      prompt |-> [ query |-> query,
                                   case_law |-> case_law,
                                   legal_commentary |-> legal_commentary,
                                   max_pages |-> LengthParams(length).max_pages,
                                   detail_level |-> LengthParams(length).detail_level,
                                   format |-> format ] ]
                ELSE [text |-> "Error generating legal research synthesis",
                      detail |-> "generation failed"]
            ELSE IF "legal_rag" \in active_agents THEN results["case_law"].content
            ELSE IF "websearch" \in active_agents THEN results["legal_commentary"].content
            ELSE EmptyText
    IN  [ id |-> IntSeconds(clock),
          query |-> query,
          content |-> final_response,
          sources |-> all_sources,
          components |-> results,
          metadata |-> [ year_range |-> [start |-> year_start, end |-> year_end],
                         format |-> format,
                         length |-> length,
                         agents_used |-> active_agents ] ]

----------------------------------------------------------------------------
(* The job store and the executions *)

\* time.time()
Now == [time |-> "now"]

Providers == {"legal_rag", "websearch"}
Terminal == {"completed", "failed"}
CallStates == {"rag_call", "web_call", "synth_call"}

\* The state after the module is loaded: an empty store, no execution.
JobInit ==
    /\ store = << >>
    /\ nextId = 1
    /\ pc = [j \in Ids |-> "unused"]
    /\ args = [j \in Ids |-> None]
    /\ agent_results = [j \in Ids |-> << >>]
    /\ log = [j \in Ids |-> << >>]
    /\ returned = [j \in Ids |-> None]

Init == JobInit /\ probe = None

\* No execution occupies the event loop: a handler or a background task can
\* be scheduled.
EventLoopFree == \A j \in Ids : pc[j] \notin CallStates

\* NextCall with a race instead of a join: the synthesis starts as soon as
\* the first provider has returned.
NextCallRace(agents, after) ==
    IF after = "start" /\ "legal_rag" \in agents THEN "rag_call"
    ELSE IF after = "start" /\ "websearch" \in agents THEN "web_call"
    ELSE "synth_call"

\* NextCall reading an empty provider list as "every provider".
NextCallDefaultAll(agents, after) ==
    IF after = "start" /\ ("legal_rag" \in agents \/ agents = {}) THEN "rag_call"
    ELSE IF after \in {"start", "legal_rag"} /\ ("websearch" \in agents \/ agents = {})
        THEN "web_call"
    ELSE "synth_call"

\* The call an execution blocks in next, after the stage `after` of the
\* provider stage ("start", "legal_rag", "websearch"): the two `if ... in
\* agents` tests in order, then the synthesis.
NextCall(agents, after) ==
    IF after = "start" /\ "legal_rag" \in agents THEN "rag_call"
    ELSE IF after \in {"start", "legal_rag"} /\ "websearch" \in agents THEN "web_call"
    ELSE "synth_call"

CallName(state) ==
    CASE state = "rag_call" -> "legal_rag"
      [] state = "web_call" -> "websearch"
      [] OTHER -> "synthesis"

Event(call, ev, outcome) == [call |-> call, ev |-> ev, outcome |-> outcome]

\* The initial record with an empty text as content instead of None.
PendingRecordEmptyContent(research_id, request, validation) ==
    [ research_id |-> research_id,
      id |-> research_id,
      query |-> request.query,
      status |-> "pending",
      content |-> EmptyText,
      sources |-> << >>,
      metadata |-> [ format |-> request.format,
                     length |-> request.length,
                     agents |-> request.agents,
                     year_range |-> [start |-> request.year_start,
                                     end |-> request.year_end],
                     validation |-> validation ],
      started_at |-> Now,
      completed_at |-> None,
      error |-> None ]

\* The record start_research stores for a new job.
\* The initial record with a placeholder citation in its sources.
PendingRecordWithSources(research_id, request, validation) ==
    [ research_id |-> research_id,
      id |-> research_id,
      query |-> request.query,
      status |-> "pending",
      content |-> None,
      sources |-> << [type |-> "web", title |-> "Untitled", url |-> "",
                      published_date |-> "", source |-> "Web Search"] >>,
      metadata |-> [ format |-> request.format,
                     length |-> request.length,
                     agents |-> request.agents,
                     year_range |-> [start |-> request.year_start,
                                     end |-> request.year_end],
                     validation |-> validation ],
      started_at |-> Now,
      completed_at |-> None,
      error |-> None ]

PendingRecord(research_id, request, validation) ==
    [ research_id |-> research_id,
      id |-> research_id,
      query |-> request.query,
      status |-> "pending",
      content |-> None,
      sources |-> << >>,
      metadata |-> [ format |-> request.format,
                     length |-> request.length,
                     agents |-> request.agents,
                     year_range |-> [start |-> request.year_start,
                                     end |-> request.year_end],
                     validation |-> validation ],
      started_at |-> Now,
      completed_at |-> None,
      error |-> None ]

\* The MCP tool's initial record with status pending.
ToolRecordPending(research_id, request) ==
    [ id |-> research_id,
      research_id |-> research_id,
      query |-> request.query,
      status |-> "pending",
      format |-> request.format,
      length |-> request.length,
      agents |-> request.agents,
      year_range |-> [start |-> request.year_start, end |-> request.year_end],
      started_at |-> Now,
      content |-> None,
      sources |-> << >>,
      error |-> None ]

\* The record the MCP tool conduct_research stores for a new job.
ToolRecord(research_id, request) ==
    [ id |-> research_id,
      research_id |-> research_id,
      query |-> request.query,
      status |-> "in_progress",
      format |-> request.format,
      length |-> request.length,
      agents |-> request.agents,
      year_range |-> [start |-> request.year_start, end |-> request.year_end],
      started_at |-> Now,
      content |-> None,
      sources |-> << >>,
      error |-> None ]

\* The completed update without its completed_at entry.
CompletedFieldsNoTime(synthesis_result, sources) ==
    [ status |-> "completed",
      content |-> Get(synthesis_result, "content", Text("No content generated")),
      sources |-> sources ]

\* The completed update writing the report into error as well.
CompletedFieldsAndError(synthesis_result, sources) ==
    [ status |-> "completed",
      content |-> Get(synthesis_result, "content", Text("No content generated")),
      error |-> Get(synthesis_result, "content", Text("No content generated")),
      sources |-> sources,
      completed_at |-> Now ]

\* The completed update replacing the stored query by the query as the
\* synthesis prompt carried it.
CompletedFieldsWithQuery(synthesis_result, sources) ==
    [ status |-> "completed",
      query |-> Text("query as synthesized"),
      content |-> Get(synthesis_result, "content", Text("No content generated")),
      sources |-> sources,
      completed_at |-> Now ]

\* The fields written when a job completes, and when it fails.
CompletedFields(synthesis_result, sources) ==
    [ status |-> "completed",
      content |-> Get(synthesis_result, "content", Text("No content generated")),
      sources |-> sources,
      completed_at |-> Now ]

FailedFields(prefix, e) ==
    [ status |-> "failed",
      error |-> [text |-> prefix, detail |-> e],
      completed_at |-> Now ]

TaskArgs(binding, request) ==
    [ binding |-> binding, query |-> request.query, format |-> request.format,
      length |-> request.length, agents |-> request.agents,
      year_start |-> request.year_start, year_end |-> request.year_end ]

\* start_research awaiting the research instead of scheduling it: the first
\* provider is called before anything is returned.
start_research_inline(request) ==
    LET validation == validate_research_query(request.query)
        research_id == nextId
    IN  /\ EventLoopFree
        /\ IF ~validation.valid THEN
              UNCHANGED jobvars
           ELSE
              /\ nextId <= MaxJobs
              /\ store' = Put(store, research_id,
                              PendingRecord(research_id, request, validation))
              /\ nextId' = nextId + 1
              /\ pc' = [pc EXCEPT ![research_id] = NextCall(request.agents, "start")]
              /\ log' = [log EXCEPT ![research_id] =
                            <<Event(CallName(NextCall(request.agents, "start")),
                                    "invoke", "-")>>]
              /\ args' = [args EXCEPT ![research_id] = TaskArgs("rest", request)]
              /\ UNCHANGED <<agent_results, returned>>
        /\ UNCHANGED probe

\* POST /research.  A query that fails validation raises HTTPException(400)
\* inside the try block and no job is created; the handler's own `except
\* Exception` catches it and raises HTTPException(500) with the text of the
\* first as detail.  Otherwise the record is stored, the background task is
\* scheduled and the response is returned.
start_research(request) ==
    LET validation == validate_research_query(request.query)
        research_id == nextId
    IN  /\ EventLoopFree
        /\ IF ~validation.valid THEN
              /\ UNCHANGED jobvars
              /\ probe' = Observe(Reply("start_research", 0, "500",
                               [detail |-> [status_code |-> "400",
                                            text |-> "Invalid query",
                                            warnings |-> validation.warnings]]))
           ELSE
              /\ nextId <= MaxJobs
              /\ store' = Put(store, research_id,
                              PendingRecord(research_id, request, validation))
              /\ nextId' = nextId + 1
              /\ pc' = [pc EXCEPT ![research_id] = "sched"]
              /\ args' = [args EXCEPT ![research_id] = TaskArgs("rest", request)]
              /\ returned' = [returned EXCEPT ![research_id] =
                                 [research_id |-> research_id, status |-> "pending"]]
              /\ UNCHANGED <<agent_results, log>>
              /\ probe' = Observe(Reply("start_research", research_id, "200",
                               [research_id |-> research_id, status |-> "pending"]))

\* Bookkeeping of the model, not of the program: once the record of a job is
\* deleted and its execution has returned, nothing of the job is left (the
\* locals went with the coroutine), so its history is dropped.
Forget(j) ==
    IF pc[j] = "done" THEN
        /\ pc' = [pc EXCEPT ![j] = "gone"]
        /\ args' = [args EXCEPT ![j] = None]
        /\ agent_results' = [agent_results EXCEPT ![j] = << >>]
        /\ log' = [log EXCEPT ![j] = << >>]
        /\ returned' = [returned EXCEPT ![j] = None]
    ELSE UNCHANGED <<pc, args, agent_results, log, returned>>

\* delete_research answering a request for an unknown identifier as done.
delete_research_lenient(research_id) ==
    /\ EventLoopFree
    /\ IF research_id \notin DOMAIN store THEN
          /\ UNCHANGED jobvars
          /\ probe' = Observe(Reply("delete_research", research_id, "200",
                           [status |-> "deleted", research_id |-> research_id]))
       ELSE
          /\ store' = Del(store, research_id)
          /\ Forget(research_id)
          /\ UNCHANGED nextId
          /\ probe' = Observe(Reply("delete_research", research_id, "200",
                           [status |-> "deleted", research_id |-> research_id]))

\* DELETE /research/{research_id}
delete_research(research_id) ==
    /\ EventLoopFree
    /\ IF research_id \notin DOMAIN store THEN
          /\ UNCHANGED jobvars
          /\ probe' = Observe(Reply("delete_research", research_id, "404", None))
       ELSE
          /\ store' = Del(store, research_id)
          /\ Forget(research_id)
          /\ UNCHANGED nextId
          /\ probe' = Observe(Reply("delete_research", research_id, "200",
                           [status |-> "deleted", research_id |-> research_id]))

\* get_research_results handing the sources over: the record keeps none.
get_research_results_consuming(research_id) ==
    /\ EventLoopFree
    /\ IF research_id \notin DOMAIN store THEN
          /\ probe' = Observe(Reply("get_research_results", research_id, "404", None))
          /\ UNCHANGED jobvars
       ELSE
          LET research == store[research_id]
          IN  /\ probe' = Observe(Reply("get_research_results", research_id, "200",
                      [ research_id |-> research_id,
                        query |-> Get(research, "query", EmptyText),
                        status |-> Get(research, "status", ""),
                        content |-> Get(research, "content", None),
                        sources |-> Get(research, "sources", << >>),
                        metadata |-> Get(research, "metadata", EmptyDict),
                        started_at |-> Get(research, "started_at", Some(0)),
                        completed_at |-> Get(research, "completed_at", None),
                        error |-> Get(research, "error", None) ]))
              /\ store' = [store EXCEPT ![research_id] = Update(@, [sources |-> << >>])]
              /\ UNCHANGED <<nextId, pc, args, agent_results, log, returned>>

\* GET /research/{research_id}
get_research_results(research_id) ==
    /\ EventLoopFree
    /\ IF research_id \notin DOMAIN store THEN
          probe' = Observe(Reply("get_research_results", research_id, "404", None))
       ELSE
          LET research == store[research_id]
          IN  probe' = Observe(Reply("get_research_results", research_id, "200",
                  [ research_id |-> research_id,
                    query |-> Get(research, "query", EmptyText),
                    status |-> Get(research, "status", ""),
                    content |-> Get(research, "content", None),
                    sources |-> Get(research, "sources", << >>),
                    metadata |-> Get(research, "metadata", EmptyDict),
                    started_at |-> Get(research, "started_at", Some(0)),
                    completed_at |-> Get(research, "completed_at", None),
                    error |-> Get(research, "error", None) ]))
    /\ UNCHANGED jobvars

\* The summary entry of list_research with the report and its sources too.
ListEntryFull(research_id, research) ==
    [ research_id |-> research_id,
      query |-> Get(research, "query", EmptyText),
      status |-> Get(research, "status", ""),
      started_at |-> Get(research, "started_at", Some(0)),
      completed_at |-> Get(research, "completed_at", None),
      content |-> Get(research, "content", None),
      sources |-> Get(research, "sources", << >>) ]

\* The summary entry list_research appends for one record.
ListEntry(research_id, research) ==
    [ research_id |-> research_id,
      query |-> Get(research, "query", EmptyText),
      status |-> Get(research, "status", ""),
      started_at |-> Get(research, "started_at", Some(0)),
      completed_at |-> Get(research, "completed_at", None) ]

\* The list built by the loop over research_store.items(): one entry per
\* record, in insertion order (identifiers are handed out in that order).
ListBody(d) ==
    LET ids == DOMAIN d
    IN  [ i \in 1..Cardinality(ids) |->
            LET research_id == CHOOSE j \in ids : Cardinality({k \in ids : k <= j}) = i
            IN  ListEntry(research_id, d[research_id]) ]

\* GET /research
list_research ==
    /\ EventLoopFree
    /\ probe' = Observe(Reply("list_research", 0, "200", ListBody(store)))
    /\ UNCHANGED jobvars

\* ReportText handing out whatever the record holds.
ReportTextAnyStatus(d, research_id) ==
    IF research_id \notin DOMAIN d THEN
        [text |-> "Research ID not found", research_id |-> research_id]
    ELSE IF Get(d[research_id], "content", None) # None THEN d[research_id].content
    ELSE Get(d[research_id], "error", None)

\* The text research_report_resource returns for research_id.
ReportText(d, research_id) ==
    IF research_id \notin DOMAIN d THEN
        [text |-> "Research ID not found", research_id |-> research_id]
    ELSE IF Get(d[research_id], "status", None) # "completed" THEN
        [ text |-> "Research is not completed. Current status:",
          status |-> Get(d[research_id], "status", None) ]
    ELSE Get(d[research_id], "content", Text("No content available"))

\* MCP resource report://{research_id}.  It is a plain def, not a coroutine:
\* nothing in it waits for the event loop, so it is not assumed to run
\* between executions only.
research_report_resource(research_id) ==
    /\ probe' = Observe(Reply("research_report_resource", research_id, "-",
                              ReportText(store, research_id)))
    /\ UNCHANGED jobvars

\* MCP tool check_research_status
check_research_status(research_id) ==
    /\ EventLoopFree
    /\ IF research_id \notin DOMAIN store THEN
          probe' = Observe(Reply("check_research_status", research_id, "ValueError", None))
       ELSE
          LET research == store[research_id]
          IN  probe' = Observe(Reply("check_research_status", research_id, "ok",
                  [ research_id |-> research_id,
                    status |-> Get(research, "status", "unknown"),
                    query |-> Get(research, "query", EmptyText),
                    started_at |-> Get(research, "started_at", Some(0)),
                    completed_at |-> Get(research, "completed_at", None) ]))
    /\ UNCHANGED jobvars

\* MCP tool get_research_sources
get_research_sources(research_id) ==
    /\ EventLoopFree
    /\ IF research_id \notin DOMAIN store THEN
          probe' = Observe(Reply("get_research_sources", research_id, "ValueError", None))
       ELSE
          probe' = Observe(Reply("get_research_sources", research_id, "ok",
                  [ research_id |-> research_id,
                    sources |-> Get(store[research_id], "sources", << >>) ]))
    /\ UNCHANGED jobvars

\* An execution enters its next blocking call.
Enter(j, state) ==
    /\ pc' = [pc EXCEPT ![j] = state]
    /\ log' = [log EXCEPT ![j] = Append(@, Event(CallName(state), "invoke", "-"))]

\* conduct_research_task without the status assignment at its start.
conduct_research_task_begin_no_status(j) ==
    /\ EventLoopFree
    /\ pc[j] = "sched"
    /\ IF j \notin DOMAIN store THEN
          /\ pc' = [pc EXCEPT ![j] = "crashed"]
          /\ UNCHANGED log
       ELSE
          Enter(j, NextCall(args[j].agents, "start"))
    /\ UNCHANGED <<store, nextId, args, agent_results, returned, probe>>

\* conduct_research_task dispatching every requested provider at once.
conduct_research_task_begin_fan_out(j) ==
    /\ EventLoopFree
    /\ pc[j] = "sched"
    /\ IF j \notin DOMAIN store THEN
          /\ pc' = [pc EXCEPT ![j] = "crashed"]
          /\ UNCHANGED <<store, log>>
       ELSE
          /\ store' = [store EXCEPT ![j] = Update(@, [status |-> "in_progress"])]
          /\ pc' = [pc EXCEPT ![j] = NextCall(args[j].agents, "start")]
          /\ log' = [log EXCEPT ![j] =
                (IF "legal_rag" \in args[j].agents
                    THEN <<Event("legal_rag", "invoke", "-")>> ELSE << >>)
                \o (IF "websearch" \in args[j].agents
                    THEN <<Event("websearch", "invoke", "-")>> ELSE << >>)
                \o (IF args[j].agents \cap {"legal_rag", "websearch"} = {}
                    THEN <<Event("synthesis", "invoke", "-")>> ELSE << >>)]
    /\ UNCHANGED <<nextId, args, agent_results, returned, probe>>

\* conduct_research_task whose except clause stores a failed record under
\* the identifier when the record is gone.
conduct_research_task_begin_recreating(j) ==
    /\ EventLoopFree
    /\ pc[j] = "sched"
    /\ IF j \notin DOMAIN store THEN
          /\ pc' = [pc EXCEPT ![j] = "crashed"]
          /\ store' = Put(store, j, FailedFields("Error in research process", "KeyError"))
          /\ UNCHANGED log
       ELSE
          /\ store' = [store EXCEPT ![j] = Update(@, [status |-> "in_progress"])]
          /\ Enter(j, NextCall(args[j].agents, "start"))
    /\ UNCHANGED <<nextId, args, agent_results, returned, probe>>

\* conduct_research_task up to its first blocking call: set the status, then
\* run the provider stage.  On a record that is gone the assignment raises
\* KeyError, and so does the update of the outer except clause: the
\* exception leaves the task.
conduct_research_task_begin(j) ==
    /\ EventLoopFree
    /\ pc[j] = "sched"
    /\ IF j \notin DOMAIN store THEN
          /\ pc' = [pc EXCEPT ![j] = "crashed"]
          /\ UNCHANGED <<store, log>>
       ELSE
          /\ store' = [store EXCEPT ![j] = Update(@, [status |-> "in_progress"])]
          /\ Enter(j, NextCall(args[j].agents, "start"))
    /\ UNCHANGED <<nextId, args, agent_results, returned, probe>>

\* perform_research, legal_rag block: the adapter's result, or the
\* placeholder of the except clause when the adapter raises.
LegalRagEntry(a, outcome) ==
    LET r == LegalRagAgent_query(a.query, a.year_start, a.year_end, outcome)
    IN  IF r.raised THEN
            [ error |-> r.error,
              content |-> Text("Error retrieving from legal database"),
              response |-> Text("Error retrieving from legal database"),
              sources |-> << >> ]
        ELSE r.value

\* perform_research, websearch block.
WebSearchEntry(a, outcome) ==
    LET r == WebSearchAgent_query(a.query, outcome)
    IN  IF r.raised THEN
            [ error |-> r.error,
              content |-> Text("Error retrieving from web sources"),
              response |-> Text("Error retrieving from web sources"),
              sources |-> << >> ]
        ELSE r.value

\* The legal_rag call given up after a timeout: the job is marked failed
\* without the call having returned.
legal_rag_return_or_timeout(j, outcome) ==
    /\ pc[j] = "rag_call"
    /\ IF outcome = "error" THEN
          /\ store' = [store EXCEPT ![j] =
                           Update(@, FailedFields("Error in research process", "timeout"))]
          /\ pc' = [pc EXCEPT ![j] = "done"]
          /\ UNCHANGED <<agent_results, log>>
       ELSE
          /\ agent_results' = [agent_results EXCEPT ![j] =
                                  Put(@, "legal_rag", LegalRagEntry(args[j], outcome))]
          /\ pc' = [pc EXCEPT ![j] = NextCall(args[j].agents, "legal_rag")]
          /\ log' = [log EXCEPT ![j] =
                        @ \o << Event("legal_rag", "return", outcome),
                                Event(CallName(NextCall(args[j].agents, "legal_rag")),
                                      "invoke", "-") >>]
          /\ UNCHANGED store
    /\ UNCHANGED <<nextId, args, returned, probe>>

\* legal_rag_return appending the provider's citations to the stored record
\* at once.
legal_rag_return_accumulating(j, outcome) ==
    /\ pc[j] = "rag_call"
    /\ agent_results' = [agent_results EXCEPT ![j] =
                            Put(@, "legal_rag", LegalRagEntry(args[j], outcome))]
    /\ pc' = [pc EXCEPT ![j] = NextCall(args[j].agents, "legal_rag")]
    /\ log' = [log EXCEPT ![j] =
                  @ \o << Event("legal_rag", "return", outcome),
                          Event(CallName(NextCall(args[j].agents, "legal_rag")),
                                "invoke", "-") >>]
    /\ store' = IF j \notin DOMAIN store THEN store
                ELSE [store EXCEPT ![j].sources =
                         @ \o format_sources(LegalRagEntry(args[j], outcome).sources)]
    /\ UNCHANGED <<nextId, args, returned, probe>>

\* The legal_rag call of job j returns; the execution goes on to its next
\* call.
legal_rag_return(j, outcome) ==
    /\ pc[j] = "rag_call"
    /\ agent_results' = [agent_results EXCEPT ![j] =
                            Put(@, "legal_rag", LegalRagEntry(args[j], outcome))]
    /\ pc' = [pc EXCEPT ![j] = NextCall(args[j].agents, "legal_rag")]
    /\ log' = [log EXCEPT ![j] =
                  @ \o << Event("legal_rag", "return", outcome),
                          Event(CallName(NextCall(args[j].agents, "legal_rag")),
                                "invoke", "-") >>]
    /\ UNCHANGED <<store, nextId, args, returned, probe>>

\* The websearch call of job j returns; the synthesis is invoked.
websearch_return(j, outcome) ==
    /\ pc[j] = "web_call"
    /\ agent_results' = [agent_results EXCEPT ![j] =
                            Put(@, "websearch", WebSearchEntry(args[j], outcome))]
    /\ pc' = [pc EXCEPT ![j] = NextCall(args[j].agents, "websearch")]
    /\ log' = [log EXCEPT ![j] =
                  @ \o << Event("websearch", "return", outcome),
                          Event(CallName(NextCall(args[j].agents, "websearch")),
                                "invoke", "-") >>]
    /\ UNCHANGED <<store, nextId, args, returned, probe>>

\* The background task marking a job failed when a provider's result is an
\* error result.
TaskOutcomeStrict(j, result) ==
    IF j \notin DOMAIN store THEN store
    ELSE IF result.raised
            \/ \E p \in DOMAIN agent_results[j] :
                  "detail" \in DOMAIN agent_results[j][p].response THEN
        [store EXCEPT ![j] = Update(@, FailedFields("Error in synthesis", "provider failed"))]
    ELSE
        [store EXCEPT ![j] =
            Update(@, CompletedFields(result.value,
                          format_sources(Get(result.value, "sources", << >>))))]

\* The background task rejecting a provider name it does not know.
TaskOutcomeKnownOnly(j, result) ==
    IF j \notin DOMAIN store THEN store
    ELSE IF result.raised \/ args[j].agents \ {"legal_rag", "websearch"} # {} THEN
        [store EXCEPT ![j] = Update(@, FailedFields("Error in research process", "unknown agent"))]
    ELSE
        [store EXCEPT ![j] =
            Update(@, CompletedFields(result.value,
                          format_sources(Get(result.value, "sources", << >>))))]

\* The background task writing its result into every record of the store.
TaskOutcomeBroadcast(j, result) ==
    IF j \notin DOMAIN store THEN store
    ELSE IF result.raised THEN
        [store EXCEPT ![j] = Update(@, FailedFields("Error in synthesis", result.error))]
    ELSE
        [k \in DOMAIN store |->
            Update(store[k], CompletedFields(result.value,
                          format_sources(Get(result.value, "sources", << >>))))]

\* The background task dropping its result: nothing is written.
TaskOutcomeNoWrite(j, result) == store

\* The store after the synthesis call of the background task has returned
\* `result`: the inner try block, its except clause, and the outer except
\* clause.  An update of a record that is gone raises KeyError in each of
\* them, so nothing is written.
TaskOutcome(j, result) ==
    IF j \notin DOMAIN store THEN store
    ELSE IF result.raised THEN
        [store EXCEPT ![j] = Update(@, FailedFields("Error in synthesis", result.error))]
    ELSE
        [store EXCEPT ![j] =
            Update(@, CompletedFields(result.value,
                          format_sources(Get(result.value, "sources", << >>))))]

\* conduct_research_task invoking the synthesis again when its generation
\* call has failed.
conduct_research_task_finish_retry(j, gen) ==
    /\ pc[j] = "synth_call"
    /\ args[j].binding = "rest"
    /\ LET a == args[j]
           result == synthesize(a.query, agent_results[j], a.format, a.length, gen)
       IN  IF gen # "ok" /\ Len(log[j]) < 8 THEN
               /\ log' = [log EXCEPT ![j] =
                             @ \o << Event("synthesis", "return", gen),
                                     Event("synthesis", "invoke", "-") >>]
               /\ UNCHANGED <<store, pc>>
           ELSE
               /\ store' = TaskOutcome(j, result)
               /\ pc' = [pc EXCEPT ![j] = IF j \in DOMAIN store THEN "done" ELSE "crashed"]
               /\ log' = [log EXCEPT ![j] = Append(@, Event("synthesis", "return", gen))]
    /\ UNCHANGED <<nextId, args, agent_results, returned, probe>>

\* conduct_research_task from the return of the generation call on.
conduct_research_task_finish(j, gen) ==
    /\ pc[j] = "synth_call"
    /\ args[j].binding = "rest"
    /\ LET a == args[j]
           result == synthesize(a.query, agent_results[j], a.format, a.length, gen)
       IN  /\ store' = TaskOutcome(j, result)
           /\ pc' = [pc EXCEPT ![j] = IF j \in DOMAIN store THEN "done" ELSE "crashed"]
           /\ log' = [log EXCEPT ![j] = Append(@, Event("synthesis", "return", gen))]
    /\ UNCHANGED <<nextId, args, agent_results, returned, probe>>

\* The MCP tool conduct_research up to its first blocking call: no
\* validation, the record is stored as in_progress, the research runs inside
\* the call.
conduct_research(request) ==
    LET research_id == nextId
    IN  /\ EventLoopFree
        /\ nextId <= MaxJobs
        /\ store' = Put(store, research_id, ToolRecord(research_id, request))
        /\ nextId' = nextId + 1
        /\ args' = [args EXCEPT ![research_id] = TaskArgs("mcp", request)]
        /\ Enter(research_id, NextCall(request.agents, "start"))
        /\ UNCHANGED <<agent_results, returned, probe>>

\* The store after the synthesis call of the MCP tool has returned `result`:
\* one try block around everything, raw sources.
ToolOutcome(j, result) ==
    IF j \notin DOMAIN store THEN store
    ELSE IF result.raised THEN
        [store EXCEPT ![j] = Update(@, FailedFields("Error in research process", result.error))]
    ELSE
        [store EXCEPT ![j] =
            Update(@, CompletedFields(result.value,
                                      Get(result.value, "sources", << >>)))]

\* The MCP tool conduct_research from the return of the generation call on:
\* the record is updated and the tool returns.
conduct_research_finish(j, gen) ==
    /\ pc[j] = "synth_call"
    /\ args[j].binding = "mcp"
    /\ LET a == args[j]
           result == synthesize(a.query, agent_results[j], a.format, a.length, gen)
       IN  /\ store' = ToolOutcome(j, result)
           /\ pc' = [pc EXCEPT ![j] = IF j \in DOMAIN store THEN "done" ELSE "crashed"]
           /\ log' = [log EXCEPT ![j] = Append(@, Event("synthesis", "return", gen))]
           /\ returned' = [returned EXCEPT ![j] =
                 IF j \notin DOMAIN store THEN None
                 ELSE IF result.raised THEN
                     [research_id |-> j, status |-> "failed", error |-> result.error]
                 ELSE
                     [ research_id |-> j, status |-> "completed",
                       content |-> Get(result.value, "content", Text("No content generated")),
                       sources |-> Get(result.value, "sources", << >>) ]]
    /\ UNCHANGED <<nextId, args, agent_results, probe>>

Next ==
    \/ \E request \in Requests : start_research(request)
    \/ \E request \in Requests : conduct_research(request)
    \/ \E j \in Ids : delete_research(j)
    \/ \E j \in Ids : conduct_research_task_begin(j)
    \/ \E j \in Ids, outcome \in RagOutcomes : legal_rag_return(j, outcome)
    \/ \E j \in Ids, outcome \in WebOutcomes : websearch_return(j, outcome)
    \/ \E j \in Ids, gen \in GenOutcomes : conduct_research_task_finish(j, gen)
    \/ \E j \in Ids, gen \in GenOutcomes : conduct_research_finish(j, gen)

Spec == Init /\ [][Next]_vars

\* Submissions and their executions with fair scheduling.  The event loop
\* runs a scheduled task when it is free, and a blocking call that returns
\* lets its execution go on.  (That the calls return is the assumption:
\* nothing in the code bounds them.)
FairRequests ==
    { Req(LegalQuery, "markdown", "comprehensive", {"legal_rag", "websearch"}, None, None) }

FairRagOutcomes == {"hits", "error"}
FairWebOutcomes == {"hits"}

FairNext ==
    \/ \E request \in FairRequests : start_research(request)
    \/ \E j \in Ids : delete_research(j)
    \/ \E j \in Ids : conduct_research_task_begin(j)
    \/ \E j \in Ids, outcome \in FairRagOutcomes : legal_rag_return(j, outcome)
    \/ \E j \in Ids, outcome \in FairWebOutcomes : websearch_return(j, outcome)
    \/ \E j \in Ids, gen \in GenOutcomes : conduct_research_task_finish(j, gen)

Fairness ==
    \A j \in Ids :
        /\ WF_vars(conduct_research_task_begin(j))
        /\ WF_vars(\E outcome \in FairRagOutcomes : legal_rag_return(j, outcome))
        /\ WF_vars(\E outcome \in FairWebOutcomes : websearch_return(j, outcome))
        /\ WF_vars(\E gen \in GenOutcomes : conduct_research_task_finish(j, gen))

FairSpec == Init /\ [][FairNext]_vars /\ Fairness

----------------------------------------------------------------------------
(* The handlers as a client sees them: every response is observed *)

\* The requests the observed clients send: legal_rag alone, the same with
\* an unknown provider name next to it, and a query too short.
ApiRequests ==
    { Req(LegalQuery, "markdown", "brief", {"legal_rag"}, Some(1990), Some(2010)),
      Req(LegalQuery, "markdown", "brief", {"legal_rag", "citator"}, Some(1990), Some(2010)),
      Req(ShortQuery, "markdown", "comprehensive", {"websearch"}, None, None) }

\* No response yet.
ApiInit ==
    /\ JobInit
    /\ probe = [ op |-> "startup", research_id |-> 0, code |-> "-",
                 body |-> None, prev |-> None ]

ApiNext ==
    \/ \E request \in ApiRequests : start_research(request)
    \/ \E j \in Ids : delete_research(j)
    \/ \E j \in Ids : get_research_results(j)
    \/ \E j \in Ids : check_research_status(j)
    \/ \E j \in Ids : get_research_sources(j)
    \/ \E j \in Ids : conduct_research_task_begin(j)
    \/ \E j \in Ids, outcome \in RagOutcomes : legal_rag_return(j, outcome)
    \/ \E j \in Ids, gen \in GenOutcomes : conduct_research_task_finish(j, gen)

ApiSpec == ApiInit /\ [][ApiNext]_vars

----------------------------------------------------------------------------
(* The store seen through list, get and the report resource *)

ViewNext ==
    \/ \E request \in ApiRequests : start_research(request)
    \/ \E j \in Ids : delete_research(j)
    \/ \E j \in Ids : get_research_results(j)
    \/ list_research
    \/ \E j \in Ids : research_report_resource(j)
    \/ \E j \in Ids : conduct_research_task_begin(j)
    \/ \E j \in Ids, outcome \in RagOutcomes : legal_rag_return(j, outcome)
    \/ \E j \in Ids, gen \in GenOutcomes : conduct_research_task_finish(j, gen)

ViewSpec == ApiInit /\ [][ViewNext]_vars

-----------------------------------------------------------------------------
(* SynthesisAgent.synthesize on its own: one call on any input *)

\* What a caller can pass as one provider's result: what the adapters and the
\* except clauses of perform_research produce, a dict without response and
\* sources, None, and a result that cites a record more than once.
ProbeRagValues ==
    { LegalRagEntry(TaskArgs("rest", r), o) :
          r \in {Req(LegalQuery, "markdown", "brief", {"legal_rag"}, None, None)},
          o \in RagOutcomes }
    \cup { [note |-> Text("no response, no sources")], None,
           [ response |-> Text("case law analysis"),
             sources |-> RagSources \o RagSources ] }

ProbeWebValues ==
    { WebSearchEntry(TaskArgs("rest", r), o) :
          r \in {Req(LegalQuery, "markdown", "brief", {"websearch"}, None, None)},
          o \in WebOutcomes }
    \cup { [note |-> Text("no response, no sources")], None,
           [ response |-> Text("web insights"),
             sources |-> WebSources \o RagSources \o WebSources ] }

ProbeResults ==
    { << >> }
    \cup { [p \in {"legal_rag"} |-> v] : v \in ProbeRagValues }
    \cup { [p \in {"websearch"} |-> v] : v \in ProbeWebValues }
    \cup { [p \in Providers |-> IF p = "legal_rag" THEN v ELSE w] :
               v \in ProbeRagValues, w \in ProbeWebValues }

SynthInit ==
    /\ JobInit
    /\ probe \in [ query : {ShortQuery, LegalQuery},
                   results : ProbeResults,
                   format : {"markdown", "html"},
                   length : {"brief", "standard", "comprehensive", "long"},
                   gen : GenOutcomes,
                   out : {None} ]

\* The call: synthesis_agent.synthesize(query, agent_results, format, length)
SynthCall ==
    /\ probe.out = None
    /\ probe' = [probe EXCEPT !.out =
                    synthesize(probe.query, probe.results, probe.format,
                               probe.length, probe.gen)]
    /\ UNCHANGED jobvars

SynthNext == SynthCall

SynthSpec == SynthInit /\ [][SynthNext]_vars

----------------------------------------------------------------------------
(* The year filter of LegalRagAgent.query on its own *)

YearArgs == {None, Some(1990), Some(2010)}
MatchYears == {1985, 1990, 2000, 2010, 2011}

FilterInit ==
    /\ JobInit
    /\ probe \in [ year_start : YearArgs,
                   year_end : YearArgs,
                   year : MatchYears,
                   compare : {"numeric", "text"},
                   out : {None} ]

\* The filter is built and the search is run over a match of year probe.year.
FilterCall ==
    /\ probe.out = None
    /\ LET filter == YearFilter(probe.year_start, probe.year_end)
       IN  probe' = [probe EXCEPT !.out =
                        [ filter |-> filter,
                          admitted |-> SearchAdmits(filter, probe.year, probe.compare) ]]
    /\ UNCHANGED jobvars

FilterNext == FilterCall

FilterSpec == FilterInit /\ [][FilterNext]_vars

----------------------------------------------------------------------------
(* LegalResearchOrchestrator.run called repeatedly while the clock advances *)

\* The observer holds the clock, the identifiers of the reports returned so
\* far and the last report.
RunInit ==
    /\ JobInit
    /\ probe = [now |-> 0, ids |-> << >>, last |-> None]

\* Half a second passes.
Tick ==
    /\ probe.now < MaxTicks
    /\ probe' = [probe EXCEPT !.now = @ + 1]
    /\ UNCHANGED jobvars

\* One call of run on an orchestrator constructed with the given agents.
RunCall(use_legal_rag, use_websearch, request, rag, web, gen) ==
    /\ Len(probe.ids) < MaxRuns
    /\ LET report == LegalResearchOrchestrator_run(
                         ActiveAgents(use_legal_rag, use_websearch),
                         request.query, request.year_start, request.year_end,
                         request.format, request.length, probe.now, rag, web, gen)
       IN  probe' = [probe EXCEPT !.ids = Append(@, report.id), !.last = report]
    /\ UNCHANGED jobvars

\* The arguments run is called with.
RunRequests ==
    { Req(LegalQuery, "markdown", "comprehensive", {}, None, None),
      Req(PlainQuery, "html", "brief", {}, Some(1990), Some(2010)) }

RunNext ==
    \/ Tick
    \/ \E use_legal_rag, use_websearch \in BOOLEAN, request \in RunRequests,
          rag \in RagOutcomes, web \in WebOutcomes, gen \in GenOutcomes :
            RunCall(use_legal_rag, use_websearch, request, rag, web, gen)

RunSpec == RunInit /\ [][RunNext]_vars

----------------------------------------------------------------------------
(* History of one job's calls *)

Invoked(j, call) ==
    \E i \in DOMAIN log[j] : log[j][i].call = call /\ log[j][i].ev = "invoke"

Returned(j, call) ==
    \E i \in DOMAIN log[j] : log[j][i].call = call /\ log[j][i].ev = "return"

InFlight(j, call) == Invoked(j, call) /\ ~Returned(j, call)

\* The providers the execution of job j dispatches.
Dispatched(j) == args[j].agents \cap Providers

\* Some provider of job j came back with an error result.
ProviderFailed(j) ==
    \E i \in DOMAIN log[j] :
        /\ log[j][i].call \in Providers
        /\ log[j][i].ev = "return"
        /\ log[j][i].outcome = "error"

\* The generation call of job j's synthesis has come back with `outcome`.
Generated(j, outcome) ==
    \E i \in DOMAIN log[j] :
        /\ log[j][i].call = "synthesis"
        /\ log[j][i].ev = "return"
        /\ log[j][i].outcome = outcome

Field(j, k) == Get(store[j], k, None)

----------------------------------------------------------------------------
(* Claims *)

\* C1: a job's status changes only along pending -> in_progress ->
\* completed or pending -> in_progress -> failed; a completed or failed
\* status is never changed by any later step.
C1_StatusTransitions ==
    [][ \A j \in DOMAIN store \cap DOMAIN store' :
            store'[j].status # store[j].status =>
                <<store[j].status, store'[j].status>> \in
                    { <<"pending", "in_progress">>,
                      <<"in_progress", "completed">>,
                      <<"in_progress", "failed">> } ]_vars

\* A REST job that went pending -> in_progress -> completed.
C1_Witness ==
    \E j \in DOMAIN store :
        /\ args[j] # None
        /\ args[j].binding = "rest"
        /\ pc[j] = "done"
        /\ store[j].status = "completed"

\* C2: start_research on a valid query stores the record as pending and
\* returns the job id with status pending before any provider or synthesis
\* call of the job is invoked; every call of a REST job is invoked after
\* that return.
C2_SubmitReturnsPending ==
    [][ \A j \in Ids :
            /\ (pc[j] = "unused" /\ pc'[j] # "unused" /\ args'[j].binding = "rest") =>
                  /\ j \in DOMAIN store'
                  /\ store'[j].status = "pending"
                  /\ returned'[j] = [research_id |-> j, status |-> "pending"]
                  /\ log'[j] = << >>
            /\ (log'[j] # << >> /\ args'[j].binding = "rest") =>
                  returned'[j] = [research_id |-> j, status |-> "pending"] ]_vars

\* A REST job whose first provider call is in flight, after the submission
\* returned pending.
C2_Witness ==
    \E j \in Ids :
        /\ pc[j] \in CallStates
        /\ args[j].binding = "rest"
        /\ returned[j] = [research_id |-> j, status |-> "pending"]
        /\ validate_research_query(args[j].query).valid

\* C3: within one job the synthesis is invoked only after every dispatched
\* provider has returned, and no provider event follows its invocation.
C3_SynthesisAfterJoin ==
    \A j \in Ids : \A i \in DOMAIN log[j] :
        (log[j][i].call = "synthesis" /\ log[j][i].ev = "invoke") =>
            /\ \A p \in Dispatched(j) :
                  \E k \in 1..(i - 1) : log[j][k].call = p /\ log[j][k].ev = "return"
            /\ \A k \in DOMAIN log[j] : k > i => log[j][k].call = "synthesis"

\* A job that requested both providers and whose synthesis has been invoked.
C3_Witness ==
    \E j \in Ids :
        /\ pc[j] = "synth_call"
        /\ Dispatched(j) = Providers
        /\ Returned(j, "legal_rag") /\ Returned(j, "websearch")

C5_ProviderFailureIsolated ==
    \A j \in Ids :
        ProviderFailed(j) =>
            /\ pc[j] \in CallStates \cup {"done"}
            /\ pc[j] \in {"synth_call", "done"} =>
                  /\ Invoked(j, "synthesis")
                  /\ \A p \in Dispatched(j) : Returned(j, p)
            /\ pc[j] = "done" =>
                  /\ Returned(j, "synthesis")
                  /\ j \in DOMAIN store
                  /\ store[j].status \in Terminal
                  /\ Generated(j, "ok") => store[j].status = "completed"

\* A REST job whose legal_rag call failed, whose websearch call was still
\* made, and which ended completed.
C5_Witness ==
    \E j \in DOMAIN store :
        /\ pc[j] = "done"
        /\ args[j].binding = "rest"
        /\ \E i \in DOMAIN log[j] :
              log[j][i] = Event("legal_rag", "return", "error")
        /\ Returned(j, "websearch")
        /\ store[j].status = "completed"

\* C6 as stated: when the generation call of the synthesis fails, the job
\* ends failed with error and completed_at set and content unset (never
\* completed).
C6_SynthesisFailureFailsJob ==
    \A j \in DOMAIN store :
        (pc[j] = "done" /\ Generated(j, "raise")) =>
            /\ store[j].status = "failed"
            /\ Field(j, "error") # None
            /\ Field(j, "completed_at") # None
            /\ Field(j, "content") = None

\* C7: synthesize never raises: whatever its input, it returns a result, and
\* when a step of its body fails (the generation call, or the reading of a
\* provider result) the result's content is the failure text and its sources
\* are empty.
C7_SynthesizeNeverRaises ==
    (probe # None /\ probe.out # None) =>
        /\ ~probe.out.raised
        /\ DOMAIN probe.out.value = {"content", "sources"}
        /\ SynthesizeBody(probe.query, probe.results, probe.format,
                          probe.length, probe.gen).raised =>
              /\ probe.out.value.content.text = "Error synthesizing research report"
              /\ probe.out.value.sources = << >>

\* A call whose generation call failed on a well-formed input with sources,
\* returned as a result.
C7_Witness ==
    /\ probe # None
    /\ probe.out # None
    /\ probe.gen = "raise"
    /\ "legal_rag" \in DOMAIN probe.results
    /\ probe.results["legal_rag"] # None
    /\ Get(probe.results["legal_rag"], "sources", << >>) # << >>
    /\ ~probe.out.raised
    /\ probe.out.value.sources = << >>

\* C8: for every job in the store, completed_at is set if and only if the
\* status is completed or failed.
C8_CompletedAtIffTerminal ==
    \A j \in DOMAIN store :
        (Field(j, "completed_at") # None) <=> (store[j].status \in Terminal)

\* A finished job with completed_at set, next to a job that is not finished
\* and has none.
C8_Witness ==
    \E j, k \in DOMAIN store :
        /\ store[j].status = "completed"
        /\ Field(j, "completed_at") # None
        /\ store[k].status \in {"pending", "in_progress"}
        /\ Field(k, "completed_at") = None

\* content and error of a job, for a job in a terminal status: exactly one is
\* set, content when completed and error when failed.
ExactlyOneOfContentError(j) ==
    /\ store[j].status = "completed" =>
          (Field(j, "content") # None /\ Field(j, "error") = None)
    /\ store[j].status = "failed" =>
          (Field(j, "error") # None /\ Field(j, "content") = None)
    /\ ~(Field(j, "content") # None /\ Field(j, "error") # None)

\* C9: a job in a terminal status has exactly one of content and error set
\* (content when completed, error when failed), the two are never both set,
\* and a content or error that is set is never written again.
C9_ContentXorError ==
    [][ /\ \A j \in DOMAIN store' : ExactlyOneOfContentError(j)'
        /\ \A j \in DOMAIN store \cap DOMAIN store' :
              /\ Field(j, "content") # None => Field(j, "content")' = Field(j, "content")
              /\ Field(j, "error") # None => Field(j, "error")' = Field(j, "error") ]_vars

\* A completed job with content set and error unset.
C9_Witness ==
    \E j \in DOMAIN store :
        /\ store[j].status = "completed"
        /\ Field(j, "content") # None
        /\ Field(j, "error") = None

\* C10: a job that is pending or in_progress has neither content nor error;
\* content is set only on completed jobs and error only on failed jobs.
C10_ContentErrorOnlyWhenTerminal ==
    \A j \in DOMAIN store :
        /\ store[j].status \in {"pending", "in_progress"} =>
              (Field(j, "content") = None /\ Field(j, "error") = None)
        /\ Field(j, "content") # None => store[j].status = "completed"
        /\ Field(j, "error") # None => store[j].status = "failed"

\* An in_progress job whose providers have returned, still without content
\* and error.
C10_Witness ==
    \E j \in DOMAIN store :
        /\ store[j].status = "in_progress"
        /\ pc[j] = "synth_call"
        /\ DOMAIN agent_results[j] = Providers
        /\ Field(j, "content") = None
        /\ Field(j, "error") = None

\* C11 as stated: an execution that ends by a fault has recorded its job as
\* failed with error and completed_at set; no fault leaves the execution
\* unhandled, also when the record was deleted before the execution ran.
C11_FaultEndsFailed ==
    \A j \in Ids :
        pc[j] = "crashed" =>
            /\ j \in DOMAIN store
            /\ store[j].status = "failed"
            /\ Field(j, "error") # None
            /\ Field(j, "completed_at") # None

\* The call of provider p of job j came back as a failure.
FailedProvider(j, p) ==
    \E i \in DOMAIN log[j] : log[j][i] = Event(p, "return", "error")

\* C12 as stated: the result an execution holds for a provider whose call
\* failed carries an error tag and a response, so that a failed provider can
\* be told from a successful one by the tag.
C12_AdapterFailureTagged ==
    \A j \in Ids : \A p \in DOMAIN agent_results[j] :
        /\ "response" \in DOMAIN agent_results[j][p]
        /\ FailedProvider(j, p) <=> "error" \in DOMAIN agent_results[j][p]

\* The calls that name one job and answer not-found when it is not stored.
ByIdOps ==
    { "get_research_results", "delete_research",
      "check_research_status", "get_research_sources" }

NotFoundCodes == {"404", "ValueError"}

\* C13: a get, delete, status or sources call on an identifier that is not
\* in the store is answered not-found (404, ValueError for the MCP tools)
\* and changes nothing of the store or of any execution; not-found is
\* answered only for an identifier that is not in the store.
C13_NotFoundLeavesStore ==
    [][ (probe' # probe /\ probe'.op \in ByIdOps) =>
            /\ probe'.research_id \notin DOMAIN store =>
                  /\ probe'.code \in NotFoundCodes
                  /\ probe'.body = None
                  /\ UNCHANGED jobvars
            /\ probe'.code \in NotFoundCodes =>
                  probe'.research_id \notin DOMAIN store ]_vars

\* A delete of an identifier that is not stored was answered 404 while
\* another job's record is in the store.
C13_Witness ==
    /\ probe.op = "delete_research"
    /\ probe.code = "404"
    /\ probe.research_id \notin DOMAIN store
    /\ DOMAIN store # {}

\* C14: a GET changes nothing of the store or of any execution (no provider
\* or synthesis call is made), and a GET of a job that an earlier GET showed
\* completed returns the same content and the same sources, whatever the
\* other jobs did in between.
C14_GetIdempotent ==
    [][ probe'.op = "get_research_results" =>
            /\ probe' # probe => UNCHANGED jobvars
            /\ ( /\ probe'.code = "200"
                 /\ probe'.prev # None
                 /\ probe'.prev.status = "completed" ) =>
                     /\ probe'.body.status = "completed"
                     /\ probe'.body.content = probe'.prev.content
                     /\ probe'.body.sources = probe'.prev.sources ]_vars

\* Two GETs of a completed job with sources, the second one answered with a
\* later job completed as well.
C14_Witness ==
    /\ probe.op = "get_research_results"
    /\ probe.code = "200"
    /\ probe.prev # None
    /\ probe.prev.status = "completed"
    /\ probe.body.sources # << >>
    /\ \E k \in DOMAIN store :
          /\ k > probe.research_id
          /\ store[k].status = "completed"

\* C15: a start_research that is not answered 200 changes nothing of the
\* store or of any execution (no identifier is taken, nothing is scheduled);
\* a query shorter than 10 characters is never accepted: every record
\* start_research stores and every execution it schedules has a valid query.
C15_InvalidQueryCreatesNothing ==
    [][ /\ ( /\ probe' # probe
             /\ probe'.op = "start_research"
             /\ probe'.code # "200" ) => UNCHANGED jobvars
        /\ \A j \in DOMAIN store' \ DOMAIN store :
              store'[j].status = "pending" => ~(store'[j].query.len < MinQueryLen)
        /\ \A j \in Ids :
              (pc[j] = "unused" /\ pc'[j] = "sched") =>
                  ~(args'[j].query.len < MinQueryLen) ]_vars

\* A too short query was rejected after a job had been accepted: the store
\* holds that job alone and the next identifier is still free.
C15_Witness ==
    /\ probe.op = "start_research"
    /\ probe.code # "200"
    /\ probe.body.detail.warnings = <<"Query is too short">>
    /\ DOMAIN store = {1}
    /\ nextId = 2
    /\ pc[2] = "unused"

\* Jobs j and k were submitted with the same query and options, whatever
\* their provider lists and entry points.
SameQueryAndOptions(j, k) ==
    /\ args[j].query = args[k].query
    /\ args[j].format = args[k].format
    /\ args[j].length = args[k].length
    /\ args[j].year_start = args[k].year_start
    /\ args[j].year_end = args[k].year_end

\* C16: a job submitted with an empty provider list invokes no provider; its
\* synthesis is invoked over an empty result map, and once its execution has
\* returned the job is completed with an empty sources list.
C16_EmptyProviderList ==
    \A j \in Ids :
        (args[j] # None /\ args[j].agents = {}) =>
            /\ \A i \in DOMAIN log[j] : log[j][i].call = "synthesis"
            /\ DOMAIN agent_results[j] = {}
            /\ pc[j] = "done" =>
                  /\ Returned(j, "synthesis")
                  /\ store[j].status = "completed"
                  /\ store[j].sources = << >>
                  /\ Field(j, "error") = None

\* A job with an empty provider list that ended completed after its
\* generation call succeeded.
C16_Witness ==
    \E j \in DOMAIN store :
        /\ pc[j] = "done"
        /\ args[j].agents = {}
        /\ Generated(j, "ok")
        /\ store[j].status = "completed"
        /\ store[j].content.text = "report"

\* C17: a provider name other than legal_rag and websearch is a no-op: no
\* call is made for it, no error is recorded for the job, and a finished job
\* has the same status, content and sources as a finished job with the same
\* query, options and known providers (and the same provider and synthesis
\* outcomes) whose list does not have the unknown name.
C17_UnknownProviderIgnored ==
    \A j \in Ids :
        (args[j] # None /\ args[j].agents \ Providers # {}) =>
            /\ \A i \in DOMAIN log[j] :
                  log[j][i].call \in (args[j].agents \cap Providers) \cup {"synthesis"}
            /\ DOMAIN agent_results[j] \subseteq Providers
            /\ pc[j] = "done" => Field(j, "error") = None
            /\ \A k \in Ids :
                  ( /\ pc[j] = "done" /\ pc[k] = "done"
                    /\ args[k].agents = args[j].agents \cap Providers
                    /\ SameQueryAndOptions(j, k)
                    /\ log[j] = log[k] ) =>
                        /\ store[j].status = store[k].status
                        /\ store[j].content = store[k].content
                        /\ store[j].sources = store[k].sources

\* Two finished jobs on the same query, one with an unknown provider name
\* next to legal_rag and one with legal_rag alone, both with citations.
C17_Witness ==
    \E j, k \in DOMAIN store :
        /\ pc[j] = "done" /\ pc[k] = "done"
        /\ args[j].agents = {"legal_rag", "citator"}
        /\ args[k].agents = {"legal_rag"}
        /\ SameQueryAndOptions(j, k)
        /\ log[j] = log[k]
        /\ store[j].status = "completed"
        /\ store[j].sources # << >>

\* C18 as stated: a job run through the REST binding and a job run through
\* the MCP tool with the same query, options, providers and outcomes end
\* with the same status, the same content and the same sources list.
C18_BindingsAgree ==
    \A j, k \in Ids :
        ( /\ pc[j] = "done" /\ pc[k] = "done"
          /\ args[j].binding = "rest" /\ args[k].binding = "mcp"
          /\ args[j].agents = args[k].agents
          /\ SameQueryAndOptions(j, k)
          /\ log[j] = log[k] ) =>
              /\ store[j].status = store[k].status
              /\ store[j].content = store[k].content
              /\ store[j].sources = store[k].sources

\* C19 as stated: whichever entry point created the job, once one of its
\* calls has been invoked its identifier had been returned to the caller,
\* with status pending.
C19_PendingFirstEveryEntryPoint ==
    \A j \in Ids :
        log[j] # << >> =>
            /\ returned[j] # None
            /\ returned[j].status = "pending"

\* C19 amended: a job created by REST start_research has its identifier
\* returned, with status pending, before any of its calls is invoked; a job
\* created by the MCP tool is stored as in_progress with its first call
\* already invoked, and its identifier is returned only with the result,
\* after the synthesis has returned.
C19_PendingFirstRestOnly ==
    \A j \in Ids :
        args[j] # None =>
            /\ args[j].binding = "rest" =>
                  /\ returned[j] = [research_id |-> j, status |-> "pending"]
                  /\ (pc[j] = "sched" /\ j \in DOMAIN store) =>
                        (store[j].status = "pending" /\ log[j] = << >>)
            /\ args[j].binding = "mcp" =>
                  /\ log[j] # << >>
                  /\ pc[j] \in CallStates =>
                        /\ returned[j] = None
                        /\ j \in DOMAIN store => store[j].status = "in_progress"
                  /\ returned[j] # None =>
                        (Returned(j, "synthesis") /\ returned[j].status \in Terminal)

\* A job of the MCP tool with a provider call in flight, stored as
\* in_progress, nothing returned yet, next to a REST job that is pending
\* with its identifier returned.
C19_Witness ==
    \E j, k \in DOMAIN store :
        /\ args[j].binding = "mcp"
        /\ pc[j] \in {"rag_call", "web_call"}
        /\ store[j].status = "in_progress"
        /\ returned[j] = None
        /\ args[k].binding = "rest"
        /\ pc[k] = "sched"
        /\ returned[k] # None

\* C20: a step of the execution of one job leaves the record of every other
\* job as it is, and the content an execution stores when it finishes is the
\* synthesis of its own query over its own result map, whose entries are the
\* answers to its own query.
C20_ExecutionWritesOwnRecord ==
    [][ \A j \in Ids :
            /\ (pc[j] \in CallStates \cup {"sched"} /\ pc'[j] # pc[j]) =>
                  \A k \in DOMAIN store \ {j} :
                      k \in DOMAIN store' /\ store'[k] = store[k]
            /\ (pc[j] = "synth_call" /\ pc'[j] = "done") =>
                  /\ store'[j].content =
                        synthesize(args[j].query, agent_results[j], args[j].format,
                                   args[j].length,
                                   log'[j][Len(log'[j])].outcome).value.content
                  /\ \A p \in DOMAIN agent_results[j] :
                        "query" \in DOMAIN agent_results[j][p].response =>
                            agent_results[j][p].response.query = args[j].query
        ]_vars

\* Two finished jobs on different queries, each with the report of its own
\* query.
C20_Witness ==
    \E j, k \in DOMAIN store :
        /\ pc[j] = "done" /\ pc[k] = "done"
        /\ args[j].query # args[k].query
        /\ store[j].content.text = "report"
        /\ store[k].content.text = "report"
        /\ store[j].content.prompt.query = args[j].query
        /\ store[k].content.prompt.query = args[k].query

\* C21 as stated, for LegalResearchOrchestrator.run: the identifiers of the
\* reports it has returned differ from each other, also for calls within the
\* same second.
C21_IdentifiersDistinct ==
    \A i, k \in DOMAIN probe.ids :
        i # k => probe.ids[i] # probe.ids[k]

\* C22: while a provider call of a job is in flight the job is in_progress
\* and its synthesis has not been invoked, and the only step that moves the
\* job on is the return of that call: there is no timeout or cancellation
\* step, so if the call never returns the job stays in_progress forever.
C22_HungProviderHangsJob ==
    [][ \A j \in Ids :
            pc[j] \in {"rag_call", "web_call"} =>
                /\ j \in DOMAIN store
                /\ store[j].status = "in_progress"
                /\ ~Invoked(j, "synthesis")
                /\ log'[j] = log[j] => (pc'[j] = pc[j] /\ store' = store)
                /\ log'[j] # log[j] =>
                      /\ Len(log'[j]) > Len(log[j])
                      /\ log'[j][Len(log[j]) + 1].call = CallName(pc[j])
                      /\ log'[j][Len(log[j]) + 1].ev = "return" ]_vars

\* A job waiting for its legal_rag call, in_progress, while a later job is
\* still pending behind it.
C22_Witness ==
    \E j, k \in DOMAIN store :
        /\ pc[j] = "rag_call"
        /\ store[j].status = "in_progress"
        /\ pc[k] = "sched"
        /\ store[k].status = "pending"

\* C23: in a job with both providers whose legal_rag call found no match and
\* whose websearch call succeeded, the legal_rag result has no sources, the
\* explanatory response and no error tag, and was made without a generation
\* call; the job ends completed, and when its generation call succeeds the
\* explanatory text is the case-law input of the synthesis and the job's
\* sources are the websearch citations alone.
C23_NoMatchesStillCompletes ==
    \A j \in Ids :
        ( /\ pc[j] \in {"synth_call", "done"}
          /\ Dispatched(j) = Providers
          /\ \E i \in DOMAIN log[j] : log[j][i] = Event("legal_rag", "return", "none")
          /\ \E i \in DOMAIN log[j] : log[j][i] = Event("websearch", "return", "hits") ) =>
            LET rag == agent_results[j]["legal_rag"]
            IN  /\ rag.sources = << >>
                /\ rag.response = Text("I couldn't find any relevant case law")
                /\ "error" \notin DOMAIN rag
                /\ \A i \in DOMAIN LegalRagCalls("none") :
                      LegalRagCalls("none")[i] # "chain.invoke"
                /\ pc[j] = "done" =>
                      /\ store[j].status = "completed"
                      /\ Generated(j, "ok") =>
                            /\ store[j].content.prompt.historical_content = rag.response
                            /\ store[j].sources =
                                  IF args[j].binding = "rest"
                                  THEN format_sources(WebSources) ELSE WebSources

\* A finished REST job with both providers, no case-law match and one web
\* citation as its only source.
C23_Witness ==
    \E j \in DOMAIN store :
        /\ pc[j] = "done"
        /\ args[j].binding = "rest"
        /\ \E i \in DOMAIN log[j] : log[j][i] = Event("legal_rag", "return", "none")
        /\ \E i \in DOMAIN log[j] : log[j][i] = Event("websearch", "return", "hits")
        /\ Generated(j, "ok")
        /\ Len(store[j].sources) = 1
        /\ store[j].sources[1].type = "web"

\* C24: the filter passed to the vector search is absent exactly when
\* neither year is given, has a lower bound exactly when year_start is given
\* and an upper bound exactly when year_end is given, each bound writing the
\* year given; a match is returned exactly when its year is within the
\* bounds given, so with 1990 and 2010 a match of 1985 is excluded.
C24_YearFilterBounds ==
    probe.out # None =>
        LET filter == probe.out.filter
            lower == probe.year_start # None
            upper == probe.year_end # None
        IN  /\ filter = None <=> (~lower /\ ~upper)
            /\ filter # None =>
                  /\ DOMAIN filter = {"year"}
                  /\ "$gte" \in DOMAIN filter.year <=> lower
                  /\ "$lte" \in DOMAIN filter.year <=> upper
                  /\ lower => Val(filter.year["$gte"]) = probe.year_start.int
                  /\ upper => Val(filter.year["$lte"]) = probe.year_end.int
            /\ probe.out.admitted <=>
                  /\ lower => probe.year_start.int <= probe.year
                  /\ upper => probe.year <= probe.year_end.int
            /\ ( /\ probe.year_start = Some(1990)
                 /\ probe.year_end = Some(2010)
                 /\ probe.year = 1985 ) => ~probe.out.admitted

\* The search with year_start 1990 and year_end 2010 over a match of 1985:
\* both bounds in the filter, the match excluded.
C24_Witness ==
    /\ probe.out # None
    /\ probe.year_start = Some(1990)
    /\ probe.year_end = Some(2010)
    /\ probe.year = 1985
    /\ DOMAIN probe.out.filter.year = {"$gte", "$lte"}
    /\ ~probe.out.admitted

\* The sources list of the entry `name` of a result map (none without the
\* entry or without its sources key).
EntrySources(results, name) ==
    IF name \in DOMAIN results /\ "sources" \in DOMAIN results[name]
    THEN results[name].sources ELSE << >>

\* How often citation c occurs in a list.
Count(c, seq) == Cardinality({i \in DOMAIN seq : seq[i] = c})

\* C25: when synthesize's body succeeds, the sources of its result are the
\* legal_rag sources followed by the websearch sources, in their order, and
\* every citation occurs as often as in the two inputs together; the
\* sources of a report of LegalResearchOrchestrator.run are built the same
\* way.
C25_SourcesConcatenated ==
    (probe.out # None
        /\ ~SynthesizeBody(probe.query, probe.results, probe.format,
                           probe.length, probe.gen).raised) =>
        LET rag == EntrySources(probe.results, "legal_rag")
            web == EntrySources(probe.results, "websearch")
            out == probe.out.value.sources
        IN  /\ out = rag \o web
            /\ \A i \in DOMAIN out :
                  Count(out[i], out) = Count(out[i], rag) + Count(out[i], web)
            /\ \A o \in RagOutcomes, w \in WebOutcomes :
                  LegalResearchOrchestrator_run(Providers, probe.query, None, None,
                      probe.format, probe.length, 0, o, w, probe.gen).sources
                  = RunCaseLaw(probe.query, None, None, o).sources
                    \o RunCommentary(probe.query, w).sources

\* A call whose result lists one citation three times: twice from legal_rag
\* and once more from websearch.
C25_Witness ==
    /\ probe.out # None
    /\ ~probe.out.raised
    /\ Len(probe.out.value.sources) = 5
    /\ Count(RagSources[1], probe.out.value.sources) = 3

\* C26: every record in the sources of a completed job whose providers
\* contain legal_rag and not websearch has type case_law.
C26_OnlyCaseLawSources ==
    \A j \in DOMAIN store :
        (/\ store[j].status = "completed"
         /\ "legal_rag" \in args[j].agents
         /\ "websearch" \notin args[j].agents) =>
            \A i \in DOMAIN store[j].sources :
                Get(store[j].sources[i], "type", "") = "case_law"

-----------------------------------------------------------------------------
(* Submissions on their own: POST /research over queries of every kind *)

\* Queries around the length limit, with and without legal vocabulary, with
\* and without a mention of Massachusetts (a query that contains a legal
\* term has at least 3 characters, one that contains "mass" at least 4).
SubmitQueries ==
    { query \in [len : {0, 9, 10, 11, 40}, legal : BOOLEAN, mass : BOOLEAN] :
        /\ query.legal => query.len >= 3
        /\ query.mass => query.len >= 4 }

SubmitRequests ==
    { Req(query, "markdown", "standard", {"websearch"}, None, None) :
        query \in SubmitQueries }

SubmitNext ==
    \E request \in SubmitRequests : start_research(request)

SubmitSpec == ApiInit /\ [][SubmitNext]_vars

\* C27: validate_research_query returns valid = false exactly for a query of
\* fewer than 10 characters; a submission creates a job exactly when the
\* query has at least 10 characters, whatever its vocabulary, and the missing
\* vocabulary or missing Massachusetts mention is only recorded as
\* enhancement notes of the job.
C27_OnlyLengthInvalidates ==
    [][\A request \in SubmitRequests :
          start_research(request) =>
              LET query == request.query
                  validation == validate_research_query(query)
              IN  /\ ~validation.valid <=> query.len < 10
                  /\ (nextId \in DOMAIN store') <=> ~(query.len < 10)
                  /\ (probe'.code = "200") <=> ~(query.len < 10)
                  /\ Len(validation.enhancements)
                        = (IF query.legal THEN 0 ELSE 1)
                          + (IF query.mass THEN 0 ELSE 1)
                  /\ ~(query.len < 10) =>
                        store'[nextId].metadata.validation = validation]_vars

\* A query of exactly 10 characters with no legal term and no mention of
\* Massachusetts was accepted: its job exists with both notes recorded.
C27_Witness ==
    /\ probe.op = "start_research"
    /\ probe.code = "200"
    /\ \E j \in DOMAIN store :
          /\ store[j].query = [len |-> 10, legal |-> FALSE, mass |-> FALSE]
          /\ store[j].status = "pending"
          /\ Len(store[j].metadata.validation.enhancements) = 2

\* The synthesis invocations of job j's execution so far.
SynthesisInvocations(j) ==
    {i \in DOMAIN log[j] : log[j][i] = Event("synthesis", "invoke", "-")}

\* C28: the execution of a job invokes synthesis at most once, and a
\* synthesis invocation issues exactly one generation call, whether its
\* input holds the results of zero, one or two providers.
C28_OneSynthesisOneGeneration ==
    \A j \in Ids :
        log[j] # << >> =>
            /\ \A i, k \in SynthesisInvocations(j) : i = k
            /\ pc[j] \in {"synth_call", "done"} =>
                  /\ SynthesisInvocations(j) # {}
                  /\ Cardinality(DOMAIN agent_results[j]) \in {0, 1, 2}
                  /\ Len(SynthesisCalls(agent_results[j])) = 1

\* Two jobs have been through synthesis, one with the results of both
\* providers as input and one with no provider result at all.
C28_Witness ==
    \E j, k \in Ids :
        /\ Returned(j, "synthesis") /\ Returned(k, "synthesis")
        /\ Cardinality(DOMAIN agent_results[j]) = 2
        /\ Cardinality(DOMAIN agent_results[k]) = 0

\* C29: the sources of a job are empty in every state in which none of its
\* providers has returned yet, so also while the job is pending.
C29_NoSourcesBeforeProviders ==
    \A j \in DOMAIN store :
        /\ (\A p \in Providers : ~Returned(j, p)) => store[j].sources = << >>
        /\ store[j].status = "pending" =>
              /\ \A p \in Providers : ~Returned(j, p)
              /\ store[j].sources = << >>

\* One job waits as pending while the case-law search of another is under
\* way; neither has sources.
C29_Witness ==
    \E j, k \in DOMAIN store :
        /\ store[j].status = "pending"
        /\ store[j].sources = << >>
        /\ store[k].status = "in_progress"
        /\ InFlight(k, "legal_rag")
        /\ store[k].sources = << >>

\* Some provider of job j has returned citations.
ProviderGaveCitations(j) ==
    \E p \in Providers :
        /\ Returned(j, p)
        /\ p \in DOMAIN agent_results[j]
        /\ agent_results[j][p].sources # << >>

\* C30 as stated: the stored record of an in_progress job shows the
\* citations of a provider as soon as that provider has returned them.
C30_SourcesAccumulate ==
    \A j \in DOMAIN store :
        (store[j].status = "in_progress" /\ ProviderGaveCitations(j)) =>
            store[j].sources # << >>

\* C30: the stored sources are not accumulated.  They stay empty as long as
\* the job is pending or in_progress, also after a provider has returned
\* citations, and the update that sets status completed writes the whole
\* list at once: every provider's citations, or none when the generation
\* call has failed.
C30_SourcesWrittenAtCompletion ==
    \A j \in DOMAIN store :
        /\ store[j].status # "completed" => store[j].sources = << >>
        /\ store[j].status = "completed" =>
              \/ store[j].sources = << >>
              \/ Len(store[j].sources)
                    = Len(EntrySources(agent_results[j], "legal_rag"))
                      + Len(EntrySources(agent_results[j], "websearch"))

\* The case-law search of an in_progress job has returned a citation and the
\* stored sources are still empty.
C30_Witness ==
    \E j \in DOMAIN store :
        /\ store[j].status = "in_progress"
        /\ ProviderGaveCitations(j)
        /\ store[j].sources = << >>

\* C31: a record leaves the store only in a step of delete_research on its
\* own identifier (the step that answers "deleted" for it); that step removes
\* this one record and leaves every other record as it was.  A step that
\* answers a submit, get, list or report request removes nothing, and the
\* three read requests leave the store as it is; a step of a background
\* execution (no response) removes nothing either.
C31_OnlyDeleteRemoves ==
    [][ /\ \A j \in DOMAIN store :
              j \notin DOMAIN store' =>
                  /\ probe' = Observe(Reply("delete_research", j, "200",
                                   [status |-> "deleted", research_id |-> j]))
                  /\ DOMAIN store' = DOMAIN store \ {j}
                  /\ \A k \in DOMAIN store' : store'[k] = store[k]
        /\ (probe' # probe /\ probe'.op # "delete_research") =>
              /\ DOMAIN store \subseteq DOMAIN store'
              /\ probe'.op # "start_research" => store' = store
        /\ probe' = probe => DOMAIN store' = DOMAIN store ]_vars

\* The older of two records has just been deleted; the younger one, already
\* completed, is still there.
C31_Witness ==
    /\ probe.op = "delete_research"
    /\ probe.code = "200"
    /\ probe.research_id = 1
    /\ DOMAIN store = {2}
    /\ store[2].status = "completed"

\* The fields of a record an execution writes.
WrittenFields == {"status", "content", "sources", "error", "completed_at"}

\* C32: once a record is stored, no step changes its identifier, its query
\* or its options (format, length, provider list, year range): a step that
\* changes a record changes only status, content, sources, error and
\* completed_at, and the identifier and the query stay the ones the job was
\* submitted with.
C32_IdentityFieldsFrozen ==
    [][ store' # store =>
          \A j \in DOMAIN store \cap DOMAIN store' :
              /\ DOMAIN store[j] \subseteq DOMAIN store'[j]
              /\ \A f \in DOMAIN store'[j] \ WrittenFields :
                    f \in DOMAIN store[j] /\ store'[j][f] = store[j][f]
              /\ store'[j].research_id = j /\ store'[j].id = j
              /\ store'[j].query = args[j].query ]_vars

\* A completed job submitted with a year range: its record still carries the
\* submitted query, providers and years.
C32_Witness ==
    \E j \in DOMAIN store :
        /\ store[j].status = "completed"
        /\ args[j].binding = "rest"
        /\ store[j].research_id = j
        /\ store[j].query = LegalQuery
        /\ store[j].metadata.agents = {"legal_rag", "citator"}
        /\ store[j].metadata.year_range = [start |-> Some(1990), end |-> Some(2010)]
        /\ store[j].metadata.format = "markdown"
        /\ store[j].metadata.length = "brief"

\* C33: the response of list_research has exactly one entry per record in
\* the store; the entry carries the record's identifier, query, status,
\* started_at and completed_at as they are at that moment, and nothing else
\* (no content, sources or error); the request leaves the store unchanged.
C33_ListIsSummaryOfStore ==
    [][ (probe' # probe /\ probe'.op = "list_research") =>
          LET body == probe'.body
          IN  /\ store' = store
              /\ Len(body) = Cardinality(DOMAIN store)
              /\ \A j \in DOMAIN store :
                    \E i \in DOMAIN body :
                        /\ body[i].research_id = j
                        /\ \A k \in DOMAIN body : body[k].research_id = j => k = i
                        /\ body[i].query = store[j].query
                        /\ body[i].status = store[j].status
                        /\ body[i].started_at = store[j].started_at
                        /\ body[i].completed_at = store[j].completed_at
              /\ \A i \in DOMAIN body :
                    DOMAIN body[i] = {"research_id", "query", "status",
                                      "started_at", "completed_at"} ]_vars

\* A list of two jobs, the first completed, the second pending.
C33_Witness ==
    /\ probe.op = "list_research"
    /\ Len(probe.body) = 2
    /\ probe.body[1].status = "completed"
    /\ probe.body[1].completed_at = Now
    /\ probe.body[2].status = "pending"
    /\ probe.body[2].completed_at = None
    /\ DOMAIN store = {1, 2}

\* The directive the three tiers stand for; any other value counts as
\* comprehensive.
TierDirective(length) ==
    CASE length = "brief" ->
            <<"5-7", "concise overview of key points">>
      [] length = "standard" ->
            <<"10-15", "balanced analysis with moderate detail">>
      [] OTHER ->
            <<"20-30", "in-depth analysis with thorough examination of legal principles">>

\* C34: the prompt of a synthesis generation call carries the directive of
\* the length tier it was called with: brief 5-7 pages concise, standard
\* 10-15 pages moderate, comprehensive 20-30 pages in-depth, and a value
\* outside the three tiers the comprehensive directive; the directive depends
\* on the tier alone, and LegalResearchOrchestrator.run uses the same table.
C34_LengthTierDirective ==
    (probe.out # None /\ "prompt" \in DOMAIN probe.out.value.content) =>
        LET prompt == probe.out.value.content.prompt
            run == LegalResearchOrchestrator_run(Providers, probe.query, None, None,
                       probe.format, probe.length, 0, "hits", "hits", "ok")
        IN  /\ <<prompt.max_pages, prompt.detail_level>> = TierDirective(probe.length)
            /\ <<run.content.prompt.max_pages, run.content.prompt.detail_level>>
                  = TierDirective(probe.length)
            /\ \A query \in {ShortQuery, LegalQuery}, results \in {<< >>, probe.results},
                 format \in {"markdown", "html"} :
                   LET other == SynthesizeBody(query, results, format, probe.length, "ok")
                   IN  ~other.raised =>
                          /\ other.value.content.prompt.max_pages = prompt.max_pages
                          /\ other.value.content.prompt.detail_level = prompt.detail_level

\* A synthesis called with a length outside the three tiers has issued its
\* prompt with the comprehensive directive.
C34_Witness ==
    /\ probe.out # None
    /\ probe.length = "long"
    /\ "prompt" \in DOMAIN probe.out.value.content
    /\ probe.out.value.content.prompt.max_pages = "20-30"

\* C35: with a fairly scheduled execution and calls that return, every job
\* in the store is eventually completed or failed, unless it is deleted; it
\* does not stay pending or in_progress forever.
C35_JobsTerminate ==
    \A j \in Ids :
        (j \in DOMAIN store)
            ~> (j \notin DOMAIN store \/ store[j].status \in Terminal)

\* A job that went through both providers and the synthesis has reached
\* completed while a second one has run to its end as well.
C35_Witness ==
    \E j, k \in DOMAIN store :
        /\ j # k
        /\ pc[j] = "done" /\ pc[k] = "done"
        /\ Returned(j, "legal_rag") /\ Returned(j, "websearch")
        /\ Returned(j, "synthesis")
        /\ store[j].status \in Terminal
        /\ store[k].status \in Terminal

\* C36: an identifier that was handed out and whose record is gone from the
\* store stays gone: no later step, in particular no step of the job's
\* execution, stores a record under it again, and a get of it is answered
\* not-found.
C36_DeletedStaysDeleted ==
    [][ \A j \in Ids :
          (j < nextId /\ j \notin DOMAIN store) =>
              /\ j \notin DOMAIN store'
              /\ (probe' # probe /\ probe'.op = "get_research_results"
                    /\ probe'.research_id = j) => probe'.code = "404" ]_vars

\* A job was deleted while pending; its task has started since and ended in
\* the KeyError, and a get of the identifier has been answered not-found.
C36_Witness ==
    \E j \in Ids :
        /\ pc[j] = "crashed"
        /\ j \notin DOMAIN store
        /\ probe.op = "get_research_results"
        /\ probe.research_id = j
        /\ probe.code = "404"

\* C37: a submission whose query fails validation is answered with status
\* 400, the client-error outcome raised at validation, not with the status
\* 500 of an unexpected fault.
C37_InvalidQueryAnswered400 ==
    (probe.op = "start_research" /\ probe.code # "200") => probe.code = "400"

-----------------------------------------------------------------------------
(* format_sources on its own: one call on any list of source records *)

\* The shapes of a source record: a case-law record, a web record, a record
\* with only a case name, one with both a case_name and a url key, and one
\* with neither.
SourceShapes ==
    { RagSources[1],
      WebSources[1],
      [case_name |-> "Doe v. Roe"],
      [case_name |-> "Smith v. Jones", url |-> "https://law.example/smith"],
      [note |-> "neither key"] }

FormatInit ==
    /\ JobInit
    /\ probe \in [ sources : UNION { [1..n -> SourceShapes] : n \in 0..MaxSources },
                   out : {None} ]

\* The call: format_sources(sources)
FormatCall ==
    /\ probe.out = None
    /\ probe' = [probe EXCEPT !.out = Ret(format_sources(probe.sources))]
    /\ UNCHANGED jobvars

FormatNext == FormatCall

FormatSpec == FormatInit /\ [][FormatNext]_vars

\* The positions of the input records format_sources keeps.
Kept(sources) ==
    {i \in DOMAIN sources :
        "case_name" \in DOMAIN sources[i] \/ "url" \in DOMAIN sources[i]}

\* C38: format_sources gives at most one record per input record, in input
\* order: a record with a case_name key gives a case_law record (also when it
\* has a url key), any other record with a url key gives a web record, and a
\* record with neither key gives nothing.  The output is never longer than
\* the input and holds case_law and web records only.
C38_FormatSourcesMapping ==
    probe.out # None =>
        LET in == probe.sources
            out == probe.out.value
            kept == Kept(in)
        IN  /\ Len(out) = Cardinality(kept)
            /\ Len(out) <= Len(in)
            /\ \A n \in DOMAIN out :
                  LET i == CHOOSE k \in kept : Cardinality({m \in kept : m <= k}) = n
                  IN  /\ out[n].type \in {"case_law", "web"}
                      /\ out[n].type = "case_law" <=> "case_name" \in DOMAIN in[i]
                      /\ out[n].type = "case_law" =>
                            out[n].case_name = in[i].case_name
                      /\ out[n].type = "web" =>
                            /\ "url" \in DOMAIN in[i]
                            /\ out[n].url = in[i].url

\* A list of three records was formatted: the first, with both keys, became
\* a case_law record, the second was dropped, the third became a web record.
C38_Witness ==
    /\ probe.out # None
    /\ Len(probe.sources) = 3
    /\ DOMAIN probe.sources[1] = {"case_name", "url"}
    /\ DOMAIN probe.sources[2] = {"note"}
    /\ probe.sources[3] = WebSources[1]
    /\ Len(probe.out.value) = 2
    /\ probe.out.value[1].type = "case_law"
    /\ probe.out.value[2].type = "web"

\* C39: a report of LegalResearchOrchestrator.run comes from a generation
\* call only when both agents are active; with one active agent its content
\* is that agent's response as returned, with none it is empty; a failed
\* provider or a failed generation call comes back as a report, whose
\* content in the second case is an error description and whose sources are
\* still the providers' sources.
C39_RunSynthesizesOnlyForTwo ==
    probe.last # None =>
        LET report == probe.last
            agents == report.metadata.agents_used
            query == report.query
            years == report.metadata.year_range
        IN  /\ "prompt" \in DOMAIN report.content => agents = Providers
            /\ agents = {} => (report.content = EmptyText /\ report.sources = << >>)
            /\ agents = {"legal_rag"} =>
                  /\ report.content = report.components["case_law"].content
                  /\ \E rag \in RagOutcomes :
                        report.content
                          = LegalRagAgent_query(query, years.start, years.end, rag).value.response
            /\ agents = {"websearch"} =>
                  /\ report.content = report.components["legal_commentary"].content
                  /\ \E web \in WebOutcomes :
                        report.content = WebSearchAgent_query(query, web).value.response
            /\ (agents = Providers /\ "prompt" \notin DOMAIN report.content) =>
                  /\ report.content.text = "Error generating legal research synthesis"
                  /\ report.sources = report.components["case_law"].sources
                                      \o report.components["legal_commentary"].sources
            /\ DOMAIN report = {"id", "query", "content", "sources", "components", "metadata"}

\* A run with both agents whose generation call failed: the report carries
\* the error description and both providers' sources.
C39_Witness ==
    /\ probe.last # None
    /\ probe.last.metadata.agents_used = Providers
    /\ probe.last.content.text = "Error generating legal research synthesis"
    /\ Len(probe.last.sources) = 2

\* C40: the report resource hands out a job's content only when the job is
\* completed.  For an unknown identifier it answers not-found; for a job that
\* is pending, in_progress or failed it answers not-completed with the
\* current status, never the content or the error text, whatever the record
\* holds; it leaves the store unchanged.
C40_ReportOnlyWhenCompleted ==
    [][ (probe' # probe /\ probe'.op = "research_report_resource") =>
          LET j == probe'.research_id
              body == probe'.body
          IN  /\ store' = store
              /\ j \notin DOMAIN store =>
                    body = [text |-> "Research ID not found", research_id |-> j]
              /\ j \in DOMAIN store =>
                    /\ store[j].status = "completed" => body = store[j].content
                    /\ store[j].status # "completed" =>
                          body = [ text |-> "Research is not completed. Current status:",
                                   status |-> store[j].status ]
                    /\ \A status \in {"pending", "in_progress", "failed"} :
                          LET d == [store EXCEPT ![j] =
                                      Update(@, [ status |-> status,
                                                  content |-> Text("report"),
                                                  error |-> Text("Error in synthesis") ])]
                          IN  ReportText(d, j)
                                = [ text |-> "Research is not completed. Current status:",
                                    status |-> status ] ]_vars

\* The resource was read for a pending job while another job's report was
\* already completed, and answered not-completed, naming pending.
C40_Witness ==
    /\ probe.op = "research_report_resource"
    /\ probe.research_id \in DOMAIN store
    /\ store[probe.research_id].status = "pending"
    /\ probe.body = [ text |-> "Research is not completed. Current status:",
                      status |-> "pending" ]
    /\ \E k \in DOMAIN store : store[k].status = "completed"

====
